---- MODULE Spec2Model ----
(***************************************************************************)
(* Verification model of the chickenz prover core (fixed-point tick        *)
(* transition, canonical codec, streaming runner), the chunked proving     *)
(* flow (host, chunk guest, match composer) and the settlement contract.   *)
(***************************************************************************)
EXTENDS Integers, Sequences, FiniteSets, TLC

(* ------------------------------------------------------------------ *)
(* Program constants (core/src/fp.rs)                                   *)
(* ------------------------------------------------------------------ *)
MAX_PROJECTILES == 24
MAX_WEAPON_PICKUPS == 4
ONE == 256
GRAVITY == 128
PLAYER_SPEED == 1024
ACCELERATION == 205
DECELERATION == 154
JUMP_VELOCITY == -2688
MAX_FALL_SPEED == 3072
PLAYER_WIDTH == 6144
PLAYER_HEIGHT == 8192
MAX_HEALTH == 100
DEATH_LINGER_TICKS == 30
INITIAL_LIVES == 1
MATCH_DURATION_TICKS == 1800
SUDDEN_DEATH_START_TICK == 1200
SUDDEN_DEATH_DURATION == 300
ZONE_DMG_INTERVAL == 5
MAX_JUMPS == 2
WALL_SLIDE_SPEED == 512
WALL_JUMP_VX == 1792
WALL_JUMP_VY == -2560
STOMP_DAMAGE_INTERVAL == 2
STOMP_DAMAGE_PER_HIT == 1
STOMP_SHAKE_PER_PRESS == 17
STOMP_SHAKE_THRESHOLD == 100
STOMP_SHAKE_DECAY == 1
STOMP_AUTO_RUN_MIN == 20
STOMP_AUTO_RUN_MAX == 60
STOMP_COOLDOWN_TICKS == 90
BTN_LEFT == 1
BTN_RIGHT == 2
BTN_JUMP == 4
BTN_SHOOT == 8
FLAG_ALIVE == 1
FLAG_INVINCIBLE == 2
FACING_RIGHT == 1
FACING_LEFT == -1
WEAPON_NONE == -1
WEAPON_PISTOL == 0
WEAPON_SHOTGUN == 1
WEAPON_SNIPER == 2
WEAPON_ROCKET == 3
WEAPON_SMG == 4
WEAPON_COUNT == 5
WEAPON_PICKUP_RESPAWN_TICKS == 300
PICKUP_RADIUS == 4096
NUM_PLATFORMS == 8
NUM_WEAPON_SPAWNS == 4
SPREAD_STEP == 16
KILL_LIST_CAP == 4

(* ------------------------------------------------------------------ *)
(* Fixed-point arithmetic and small helpers                             *)
(* ------------------------------------------------------------------ *)
Min(a, b) == IF a <= b THEN a ELSE b
Max(a, b) == IF a >= b THEN a ELSE b
Abs(a) == IF a < 0 THEN -a ELSE a

\* (a * b) >> 8 on a 64-bit intermediate: an arithmetic shift, i.e. floor.
Mul(a, b) == (a * b) \div ONE

Fp(v) == v * ONE

\* Rust's integer division truncates toward zero.
TruncDiv(a, b) ==
    IF (a >= 0) = (b > 0) THEN Abs(a) \div Abs(b) ELSE -(Abs(a) \div Abs(b))

\* buttons & bit != 0, for a single-bit mask.
HasBit(v, bit) == (v \div bit) % 2 = 1

(* ------------------------------------------------------------------ *)
(* Unsigned 32/64-bit words as little-endian byte tuples                *)
(* (rng_state is a u32; the PRNG multiplies on u64 intermediates)       *)
(* ------------------------------------------------------------------ *)
\* v.to_le_bytes() for an i32 / u32 held as an integer (two's complement).
LE4(v) == << v % 256, (v \div 256) % 256, (v \div 65536) % 256, (v \div 16777216) % 256 >>

\* i32::from_le_bytes
I32FromLE(b) ==
    LET hi == IF b[4] >= 128 THEN b[4] - 256 ELSE b[4]
    IN  b[1] + 256 * b[2] + 65536 * b[3] + 16777216 * hi

\* `x as u8` for an i8, and `b as i8` for a u8.
I8AsU8(x) == x % 256
U8AsI8(b) == IF b >= 128 THEN b - 256 ELSE b

\* Byte k (0-based) of a little-endian byte tuple, 0 beyond its width.
ByteAt(w, k) == IF k + 1 <= Len(w) THEN w[k + 1] ELSE 0

RECURSIVE BitXor(_, _, _)
BitXor(a, b, n) ==
    IF n = 0 THEN 0
    ELSE ((a + b) % 2) + 2 * BitXor(a \div 2, b \div 2, n - 1)

\* a ^ b on words of n bytes
WXor(a, b, n) == [k \in 1..n |-> BitXor(a[k], b[k], 8)]

\* a >> sh on a word of n bytes
WShr(a, sh, n) ==
    LET q == sh \div 8
        r == sh % 8
        p == 2 ^ r
    IN  [k \in 1..n |->
            ((ByteAt(a, k - 1 + q) \div p) + ByteAt(a, k + q) * (256 \div p)) % 256]

\* a | 1
WOr1(a) == [a EXCEPT ![1] = IF a[1] % 2 = 0 THEN a[1] + 1 ELSE a[1]]

RECURSIVE WAddCarry(_, _, _, _, _)
WAddCarry(a, b, n, k, carry) ==
    IF k > n THEN << >>
    ELSE LET t == a[k] + b[k] + carry
         IN  << t % 256 >> \o WAddCarry(a, b, n, k + 1, t \div 256)

\* wrapping_add on words of n bytes
WAdd(a, b, n) == WAddCarry(a, b, n, 1, 0)

RECURSIVE ColSum(_, _, _, _)
ColSum(a, b, col, i) ==
    IF i > col THEN 0
    ELSE ByteAt(a, i) * ByteAt(b, col - i) + ColSum(a, b, col, i + 1)

RECURSIVE WMulCarry(_, _, _, _, _)
WMulCarry(a, b, n, col, carry) ==
    IF col >= n THEN << >>
    ELSE LET t == ColSum(a, b, col, 0) + carry
         IN  << t % 256 >> \o WMulCarry(a, b, n, col + 1, t \div 256)

\* wrapping_mul on words of n bytes (the low n bytes of the product)
WMul(a, b, n) == WMulCarry(a, b, n, 0, 0)

\* `x as u64` for a u32 word
U32AsU64(a) == a \o << 0, 0, 0, 0 >>

\* The u32 constant 0x6D2B79F5, little-endian
PRNG_INCREMENT == << 245, 121, 43, 109 >>

\* ((result as u64 * range as u64) >> 32) for a small range: the carry out of
\* the fourth byte of result * range.
RECURSIVE MulSmallHigh(_, _, _, _)
MulSmallHigh(result, range, k, carry) ==
    IF k > 4 THEN carry
    ELSE MulSmallHigh(result, range, k + 1, (result[k] * range + carry) \div 256)

\* prng_int_range(state, min, max) -> [val, rng]
prng_int_range(state, min, max) ==
    LET Low32(m) == << m[1], m[2], m[3], m[4] >>
        Shift(t) == Low32(WShr(WXor(t, WShr(t, 14, 8), 8), 16, 8))
        Square(t) == WAdd(t, WMul(t, WOr1(t), 8), 8)
        Result(s) == Shift(Square(WMul(U32AsU64(s),
                                       U32AsU64(WXor(s, WShr(s, 15, 4), 4)), 8)))
        Out(s) == [val |-> min + MulSmallHigh(Result(s), max - min + 1, 1, 0), rng |-> s]
    IN  Out(WAdd(state, PRNG_INCREMENT, 4))

\* to_le_bytes of a small seed given as an integer
SeedWord(seed) == LE4(seed)

(* ------------------------------------------------------------------ *)
(* Weapon table                                                         *)
(* ------------------------------------------------------------------ *)
WEAPON_ROTATION ==
    [i \in 0..4 |-> CASE i = 0 -> WEAPON_PISTOL [] i = 1 -> WEAPON_SHOTGUN
                      [] i = 2 -> WEAPON_SNIPER [] i = 3 -> WEAPON_ROCKET
                      [] OTHER -> WEAPON_SMG]

WEAPON_STATS ==
    [w \in 0..4 |->
        CASE w = 0 -> [damage |-> 20, speed |-> 2048, cooldown |-> 12, lifetime |-> 90,
                       ammo |-> 15, pellets |-> 1, splash_radius |-> 0, splash_damage |-> 0]
          [] w = 1 -> [damage |-> 12, speed |-> 1792, cooldown |-> 30, lifetime |-> 45,
                       ammo |-> 6, pellets |-> 5, splash_radius |-> 0, splash_damage |-> 0]
          [] w = 2 -> [damage |-> 80, speed |-> 4096, cooldown |-> 60, lifetime |-> 120,
                       ammo |-> 3, pellets |-> 1, splash_radius |-> 0, splash_damage |-> 0]
          [] w = 3 -> [damage |-> 50, speed |-> 1792, cooldown |-> 45, lifetime |-> 120,
                       ammo |-> 4, pellets |-> 1, splash_radius |-> 10240, splash_damage |-> 25]
          [] OTHER -> [damage |-> 10, speed |-> 2304, cooldown |-> 5, lifetime |-> 60,
                       ammo |-> 40, pellets |-> 1, splash_radius |-> 0, splash_damage |-> 0]]

\* Falls back to Pistol for an out-of-range weapon.
fp_weapon_stats(weapon) ==
    IF weapon >= 0 /\ weapon < WEAPON_COUNT THEN WEAPON_STATS[weapon] ELSE WEAPON_STATS[0]

(* ------------------------------------------------------------------ *)
(* Map, sentinels and the initial state                                 *)
(* ------------------------------------------------------------------ *)
Platform(x, y, w, h) == [x |-> Fp(x), y |-> Fp(y), width |-> Fp(w), height |-> Fp(h)]

arena_map ==
    [width |-> Fp(960),
     height |-> Fp(540),
     platforms |->
        [i \in 0..(NUM_PLATFORMS - 1) |->
            CASE i = 0 -> Platform(0, 512, 960, 32)
              [] i = 1 -> Platform(128, 416, 176, 16)
              [] i = 2 -> Platform(672, 416, 176, 16)
              [] i = 3 -> Platform(352, 304, 256, 16)
              [] i = 4 -> Platform(64, 208, 144, 16)
              [] i = 5 -> Platform(752, 208, 144, 16)
              [] OTHER -> Platform(0, 0, 0, 0)],
     spawns |->
        [i \in 0..3 |->
            CASE i = 0 -> [x |-> Fp(144), y |-> Fp(480)]
              [] i = 1 -> [x |-> Fp(832), y |-> Fp(480)]
              [] i = 2 -> [x |-> Fp(432), y |-> Fp(272)]
              [] OTHER -> [x |-> Fp(480), y |-> Fp(176)]],
     weapon_spawns |->
        [i \in 0..(NUM_WEAPON_SPAWNS - 1) |->
            CASE i = 0 -> [x |-> Fp(192), y |-> Fp(384)]
              [] i = 1 -> [x |-> Fp(736), y |-> Fp(384)]
              [] i = 2 -> [x |-> Fp(464), y |-> Fp(272)]
              [] OTHER -> [x |-> Fp(464), y |-> Fp(480)]]]

EMPTY_PROJECTILE ==
    [id |-> -1, owner_id |-> -1, x |-> 0, y |-> 0, vx |-> 0, vy |-> 0,
     lifetime |-> 0, weapon |-> WEAPON_NONE]

EMPTY_PICKUP == [id |-> -1, x |-> 0, y |-> 0, weapon |-> WEAPON_NONE, respawn_timer |-> 0]

NULL_INPUT == [buttons |-> 0, aim_x |-> 0, aim_y |-> 0]

InitialPlayer(id, map, initial_lives) ==
    [id |-> id,
     x |-> map.spawns[id].x,
     y |-> map.spawns[id].y,
     vx |-> 0, vy |-> 0,
     facing |-> IF id = 0 THEN FACING_RIGHT ELSE FACING_LEFT,
     health |-> MAX_HEALTH,
     lives |-> initial_lives,
     shoot_cooldown |-> 0,
     grounded |-> FALSE,
     state_flags |-> FLAG_ALIVE,
     respawn_timer |-> 0,
     weapon |-> WEAPON_NONE,
     ammo |-> 0,
     jumps_left |-> MAX_JUMPS,
     wall_sliding |-> FALSE,
     wall_dir |-> 0,
     stomped_by |-> -1,
     stomping_on |-> -1,
     stomp_shake_progress |-> 0,
     stomp_last_shake_dir |-> 0,
     stomp_auto_run_dir |-> 0,
     stomp_auto_run_timer |-> 0,
     stomp_cooldown |-> 0]

\* seed is the u32 seed as a little-endian byte tuple.
create_initial_state_cfg(seed, map, initial_lives, match_duration, sudden_death) ==
    [tick |-> 0,
     players |-> [i \in 0..1 |-> InitialPlayer(i, map, initial_lives)],
     projectiles |-> [i \in 0..(MAX_PROJECTILES - 1) |-> EMPTY_PROJECTILE],
     proj_count |-> 0,
     weapon_pickups |->
        [i \in 0..(MAX_WEAPON_PICKUPS - 1) |->
            IF i < NUM_WEAPON_SPAWNS
            THEN [id |-> i, x |-> map.weapon_spawns[i].x, y |-> map.weapon_spawns[i].y,
                  weapon |-> WEAPON_ROTATION[i % WEAPON_COUNT], respawn_timer |-> 0]
            ELSE EMPTY_PICKUP],
     pickup_count |-> NUM_WEAPON_SPAWNS,
     rng_state |-> seed,
     score |-> [i \in 0..1 |-> 0],
     next_proj_id |-> 0,
     arena_left |-> 0,
     arena_right |-> map.width,
     match_over |-> FALSE,
     winner |-> -1,
     death_linger_timer |-> 0,
     prev_buttons |-> [i \in 0..1 |-> 0],
     cfg_initial_lives |-> initial_lives,
     cfg_match_duration |-> match_duration,
     cfg_sudden_death |-> sudden_death]

create_initial_state(seed, map) ==
    create_initial_state_cfg(seed, map, INITIAL_LIVES, MATCH_DURATION_TICKS,
                             SUDDEN_DEATH_START_TICK)

(* ------------------------------------------------------------------ *)
(* Physics: input, gravity, movement and collision                      *)
(* ------------------------------------------------------------------ *)
IsAlive(p) == HasBit(p.state_flags, FLAG_ALIVE)
IsInvincible(p) == HasBit(p.state_flags, FLAG_INVINCIBLE)

\* The horizontal acceleration / deceleration part of apply_input_mut.
InputVx(p, buttons) ==
    LET target_vx == (IF HasBit(buttons, BTN_LEFT) THEN -PLAYER_SPEED ELSE 0)
                     + (IF HasBit(buttons, BTN_RIGHT) THEN PLAYER_SPEED ELSE 0)
    IN  IF target_vx # 0
        THEN IF p.vx < target_vx THEN Min(p.vx + ACCELERATION, target_vx)
             ELSE IF p.vx > target_vx THEN Max(p.vx - ACCELERATION, target_vx)
             ELSE p.vx
        ELSE IF p.vx > 0 THEN Max(p.vx - DECELERATION, 0)
        ELSE IF p.vx < 0 THEN Min(p.vx + DECELERATION, 0)
        ELSE p.vx

\* A jump test that reads the level of the button, not its edge.
JumpLevel(buttons, prev_buttons) == HasBit(buttons, BTN_JUMP)

\* Jump edge detection: pressed now, not pressed last tick.
JumpEdge(buttons, prev_buttons) ==
    HasBit(buttons, BTN_JUMP) /\ ~HasBit(prev_buttons, BTN_JUMP)

\* The jump part of apply_input_mut (wall jump, then normal / double jump).
InputJump(p, buttons, prev_buttons) ==
    IF ~JumpEdge(buttons, prev_buttons) THEN p
    ELSE IF p.wall_sliding /\ p.jumps_left > 0
    THEN [p EXCEPT !.vx = WALL_JUMP_VX * (-p.wall_dir),
                   !.vy = WALL_JUMP_VY,
                   !.jumps_left = p.jumps_left - 1,
                   !.wall_sliding = FALSE,
                   !.wall_dir = 0]
    ELSE IF p.jumps_left > 0
    THEN [p EXCEPT !.vy = JUMP_VELOCITY, !.jumps_left = p.jumps_left - 1]
    ELSE p

apply_input_mut(p, buttons, prev_buttons, aim_x) ==
    LET Facing(q) == IF aim_x > 0 THEN [q EXCEPT !.facing = FACING_RIGHT]
                     ELSE IF aim_x < 0 THEN [q EXCEPT !.facing = FACING_LEFT]
                     ELSE q
    IN  IF ~IsAlive(p) THEN p
        ELSE IF p.stomped_by >= 0 THEN p
        ELSE IF p.stomping_on >= 0 THEN p
        ELSE Facing(InputJump([p EXCEPT !.vx = InputVx(p, buttons)], buttons, prev_buttons))

apply_gravity_mut(p) ==
    IF ~IsAlive(p) THEN p
    ELSE IF p.stomping_on >= 0 THEN p
    ELSE LET max_fall == IF p.wall_sliding THEN WALL_SLIDE_SPEED ELSE MAX_FALL_SPEED
         IN  [p EXCEPT !.vy = Min(p.vy + GRAVITY, max_fall)]

\* A platform loop iteration that tests the sides in the order left, right,
\* top, bottom.
CollidePlatformSidesFirst(p, plat) ==
    IF plat.width = 0 \/ plat.height = 0 THEN p
    ELSE IF /\ p.x + PLAYER_WIDTH > plat.x
            /\ p.x < plat.x + plat.width
            /\ p.y + PLAYER_HEIGHT > plat.y
            /\ p.y < plat.y + plat.height
    THEN LET overlap_left == (p.x + PLAYER_WIDTH) - plat.x
             overlap_right == (plat.x + plat.width) - p.x
             overlap_top == (p.y + PLAYER_HEIGHT) - plat.y
             overlap_bottom == (plat.y + plat.height) - p.y
             min_overlap == Min(Min(Min(overlap_left, overlap_right), overlap_top),
                                overlap_bottom)
         IN  IF min_overlap = overlap_left
             THEN [p EXCEPT !.x = plat.x - PLAYER_WIDTH, !.vx = 0]
             ELSE IF min_overlap = overlap_right
             THEN [p EXCEPT !.x = plat.x + plat.width, !.vx = 0]
             ELSE IF min_overlap = overlap_top
             THEN [p EXCEPT !.y = plat.y - PLAYER_HEIGHT, !.vy = 0, !.grounded = TRUE]
             ELSE [p EXCEPT !.y = plat.y + plat.height, !.vy = 0]
    ELSE p

\* One iteration of the platform loop of move_and_collide_mut:
\* minimum-penetration resolution, tested in the order top, bottom, left, right.
CollidePlatform(p, plat) ==
    IF plat.width = 0 \/ plat.height = 0 THEN p
    ELSE IF /\ p.x + PLAYER_WIDTH > plat.x
            /\ p.x < plat.x + plat.width
            /\ p.y + PLAYER_HEIGHT > plat.y
            /\ p.y < plat.y + plat.height
    THEN LET overlap_left == (p.x + PLAYER_WIDTH) - plat.x
             overlap_right == (plat.x + plat.width) - p.x
             overlap_top == (p.y + PLAYER_HEIGHT) - plat.y
             overlap_bottom == (plat.y + plat.height) - p.y
             min_overlap == Min(Min(Min(overlap_left, overlap_right), overlap_top),
                                overlap_bottom)
         IN  IF min_overlap = overlap_top
             THEN [p EXCEPT !.y = plat.y - PLAYER_HEIGHT, !.vy = 0, !.grounded = TRUE]
             ELSE IF min_overlap = overlap_bottom
             THEN [p EXCEPT !.y = plat.y + plat.height, !.vy = 0]
             ELSE IF min_overlap = overlap_left
             THEN [p EXCEPT !.x = plat.x - PLAYER_WIDTH, !.vx = 0]
             ELSE [p EXCEPT !.x = plat.x + plat.width, !.vx = 0]
    ELSE p

RECURSIVE CollidePlatforms(_, _, _)
CollidePlatforms(p, map, i) ==
    IF i >= NUM_PLATFORMS THEN p
    ELSE CollidePlatforms(CollidePlatform(p, map.platforms[i]), map, i + 1)

\* Arena boundary clamping (map bounds; being at the floor sets grounded).
ClampToMap(p, map) ==
    LET Bottom(q) == IF q.y + PLAYER_HEIGHT > map.height
                     THEN [q EXCEPT !.y = map.height - PLAYER_HEIGHT, !.vy = 0,
                                    !.grounded = TRUE]
                     ELSE q
        Top(q) == Bottom(IF q.y < 0 THEN [q EXCEPT !.y = 0, !.vy = 0] ELSE q)
        Right(q) == Top(IF q.x + PLAYER_WIDTH > map.width
                        THEN [q EXCEPT !.x = map.width - PLAYER_WIDTH] ELSE q)
    IN  Right(IF p.x < 0 THEN [p EXCEPT !.x = 0] ELSE p)

\* The platform side-wall loop of the wall slide detection: the wall_dir of the
\* first platform that matches, 0 when none does.
RECURSIVE PlatformWallDir(_, _, _, _, _)
PlatformWallDir(p, map, pressing_left, pressing_right, i) ==
    IF i >= NUM_PLATFORMS THEN 0
    ELSE LET plat == map.platforms[i]
         IN  IF p.y + PLAYER_HEIGHT > plat.y /\ p.y < plat.y + plat.height
             THEN IF /\ pressing_right
                     /\ p.x + PLAYER_WIDTH >= plat.x
                     /\ p.x + PLAYER_WIDTH <= plat.x + 512
                  THEN 1
                  ELSE IF /\ pressing_left
                          /\ p.x <= plat.x + plat.width
                          /\ p.x >= plat.x + plat.width - 512
                  THEN -1
                  ELSE PlatformWallDir(p, map, pressing_left, pressing_right, i + 1)
             ELSE PlatformWallDir(p, map, pressing_left, pressing_right, i + 1)

\* Wall slide detection: the wall_dir found (0 = not sliding).
WallSlideDir(p, buttons, map) ==
    LET pressing_left == HasBit(buttons, BTN_LEFT)
        pressing_right == HasBit(buttons, BTN_RIGHT)
    IN  IF ~p.grounded /\ p.vy > 0
        THEN IF p.x <= 0 /\ pressing_left THEN -1
             ELSE IF p.x + PLAYER_WIDTH >= map.width /\ pressing_right THEN 1
             ELSE PlatformWallDir(p, map, pressing_left, pressing_right, 0)
        ELSE 0

\* The effect of a detected wall slide on facing and vx.
WallSlideFacing(p) ==
    IF p.wall_sliding THEN [p EXCEPT !.facing = p.wall_dir, !.vx = 0] ELSE p

\* Jump refund: grounded resets to MAX_JUMPS, wall slide grants 1 if exhausted.
JumpRefund(p) ==
    IF p.grounded THEN [p EXCEPT !.jumps_left = MAX_JUMPS]
    ELSE IF p.wall_sliding /\ p.jumps_left = 0 THEN [p EXCEPT !.jumps_left = 1]
    ELSE p

move_and_collide_mut(p, buttons, map) ==
    LET SetWall(q, dir) == [q EXCEPT !.wall_sliding = (dir # 0), !.wall_dir = dir]
        WallSlide(q) == JumpRefund(WallSlideFacing(SetWall(q, WallSlideDir(q, buttons, map))))
    IN  IF ~IsAlive(p) THEN p
        ELSE IF p.stomping_on >= 0 THEN p
        ELSE WallSlide(ClampToMap(
                CollidePlatforms([p EXCEPT !.x = p.x + p.vx, !.y = p.y + p.vy,
                                           !.grounded = FALSE], map, 0), map))

(* ------------------------------------------------------------------ *)
(* Weapon pickups                                                       *)
(* ------------------------------------------------------------------ *)
player_overlaps_pickup(p, pickup) ==
    /\ pickup.x + PICKUP_RADIUS > p.x
    /\ pickup.x - PICKUP_RADIUS < p.x + PLAYER_WIDTH
    /\ pickup.y + PICKUP_RADIUS > p.y
    /\ pickup.y - PICKUP_RADIUS < p.y + PLAYER_HEIGHT

\* An inner loop that lets the last overlapping player take the pickup.
PickupTakerLast(state, pi, i) ==
    IF IsAlive(state.players[1])
       /\ player_overlaps_pickup(state.players[1], state.weapon_pickups[pi])
    THEN 1
    ELSE IF IsAlive(state.players[0])
            /\ player_overlaps_pickup(state.players[0], state.weapon_pickups[pi])
    THEN 0
    ELSE -1

\* The inner loop of resolve_weapon_pickups: the first alive player that
\* overlaps the pickup takes it (the loop breaks after it); -1 when none does.
RECURSIVE PickupTaker(_, _, _)
PickupTaker(state, pi, i) ==
    IF i >= 2 THEN -1
    ELSE IF IsAlive(state.players[i])
            /\ player_overlaps_pickup(state.players[i], state.weapon_pickups[pi])
    THEN i
    ELSE PickupTaker(state, pi, i + 1)

RECURSIVE ResolvePickupsFrom(_, _)
ResolvePickupsFrom(state, pi) ==
    IF pi >= state.pickup_count THEN state
    ELSE IF state.weapon_pickups[pi].respawn_timer > 0
    THEN ResolvePickupsFrom(state, pi + 1)
    ELSE LET i == PickupTaker(state, pi, 0)
         IN  IF i < 0 THEN ResolvePickupsFrom(state, pi + 1)
             ELSE ResolvePickupsFrom(
                    [state EXCEPT
                       !.players[i].weapon = state.weapon_pickups[pi].weapon,
                       !.players[i].ammo = fp_weapon_stats(state.weapon_pickups[pi].weapon).ammo,
                       !.players[i].shoot_cooldown = 0,
                       !.weapon_pickups[pi].respawn_timer = WEAPON_PICKUP_RESPAWN_TICKS],
                    pi + 1)

\* A pickup step whose respawn timers run one tick longer.
LateTimers(before, s) ==
    [s EXCEPT !.weapon_pickups =
        [pi \in DOMAIN s.weapon_pickups |->
            IF s.weapon_pickups[pi].respawn_timer > before.weapon_pickups[pi].respawn_timer
            THEN [s.weapon_pickups[pi] EXCEPT
                    !.respawn_timer = WEAPON_PICKUP_RESPAWN_TICKS + 1]
            ELSE s.weapon_pickups[pi]]]

resolve_weapon_pickups_late(state) == LateTimers(state, ResolvePickupsFrom(state, 0))

resolve_weapon_pickups(state) == ResolvePickupsFrom(state, 0)

RECURSIVE TickPickupTimersFrom(_, _)
TickPickupTimersFrom(state, pi) ==
    LET Reroll(r) == [state EXCEPT
                        !.weapon_pickups[pi].respawn_timer = @ - 1,
                        !.rng_state = r.rng,
                        !.weapon_pickups[pi].weapon = WEAPON_ROTATION[r.val]]
    IN  IF pi >= state.pickup_count THEN state
        ELSE IF state.weapon_pickups[pi].respawn_timer <= 0
        THEN TickPickupTimersFrom(state, pi + 1)
        ELSE IF state.weapon_pickups[pi].respawn_timer - 1 <= 0
        THEN TickPickupTimersFrom(
                Reroll(prng_int_range(state.rng_state, 0, WEAPON_COUNT - 1)), pi + 1)
        ELSE TickPickupTimersFrom(
                [state EXCEPT !.weapon_pickups[pi].respawn_timer = @ - 1], pi + 1)

tick_pickup_timers(state) == TickPickupTimersFrom(state, 0)

(* ------------------------------------------------------------------ *)
(* Projectiles                                                          *)
(* ------------------------------------------------------------------ *)
\* The (nx, ny) aim direction shared by spawn_projectile and the shotgun path.
AimDir(player, aim_x, aim_y) ==
    IF aim_x = 0 /\ aim_y = 0
    THEN LET dir == IF player.wall_sliding THEN -player.wall_dir ELSE player.facing
         IN  << dir * ONE, 0 >>
    ELSE IF aim_y = 0 THEN << IF aim_x > 0 THEN ONE ELSE -ONE, 0 >>
    ELSE IF aim_x = 0 THEN << 0, IF aim_y > 0 THEN ONE ELSE -ONE >>
    ELSE << IF aim_x > 0 THEN 181 ELSE -181, IF aim_y > 0 THEN 181 ELSE -181 >>

spawn_projectile(player, aim_x, aim_y, id, weapon, speed) ==
    LET n == AimDir(player, aim_x, aim_y)
        offset_x == Mul(n[1], PLAYER_WIDTH \div 2)
        offset_y == Mul(n[2], PLAYER_HEIGHT \div 2)
    IN  [id |-> id,
         owner_id |-> player.id,
         x |-> player.x + PLAYER_WIDTH \div 2 + offset_x,
         y |-> player.y + PLAYER_HEIGHT \div 2 + offset_y,
         vx |-> Mul(n[1], speed),
         vy |-> Mul(n[2], speed),
         lifetime |-> fp_weapon_stats(weapon).lifetime,
         weapon |-> weapon]

\* The pellet loop of spawn_weapon_projectiles (shotgun spread with PRNG jitter).
RECURSIVE SpawnPellets(_, _, _, _, _)
SpawnPellets(state, player_idx, n, stats, i) ==
    LET pl == state.players[player_idx]
        perp_x == -n[2]
        perp_y == n[1]
        Pellet(spread) ==
            [id |-> state.next_proj_id,
             owner_id |-> pl.id,
             x |-> pl.x + PLAYER_WIDTH \div 2 + Mul(n[1], PLAYER_WIDTH \div 2),
             y |-> pl.y + PLAYER_HEIGHT \div 2 + Mul(n[2], PLAYER_HEIGHT \div 2),
             vx |-> Mul(n[1], stats.speed) + Mul(perp_x, spread),
             vy |-> Mul(n[2], stats.speed) + Mul(perp_y, spread) - Mul(15, stats.speed),
             lifetime |-> stats.lifetime,
             weapon |-> pl.weapon]
        \* r is the PRNG jitter draw; offset = i - pellets / 2.
        Spawn(r) ==
            [state EXCEPT
               !.rng_state = r.rng,
               !.projectiles[state.proj_count] =
                   Pellet(Mul((i - (stats.pellets \div 2)) * SPREAD_STEP + r.val,
                              stats.speed)),
               !.proj_count = @ + 1,
               !.next_proj_id = @ + 1]
    IN  IF i >= stats.pellets \/ state.proj_count >= MAX_PROJECTILES THEN state
        ELSE SpawnPellets(Spawn(prng_int_range(state.rng_state, -6, 6)),
                          player_idx, n, stats, i + 1)

\* A shotgun that leaves out its first pellet.
spawn_weapon_projectiles_short(state, player_idx, aim_x, aim_y) ==
    LET weapon == state.players[player_idx].weapon
        stats == fp_weapon_stats(weapon)
    IN  IF weapon = WEAPON_NONE THEN state
        ELSE IF stats.pellets = 1
        THEN IF state.proj_count < MAX_PROJECTILES
             THEN [state EXCEPT
                     !.projectiles[state.proj_count] =
                         spawn_projectile(state.players[player_idx], aim_x, aim_y,
                                          state.next_proj_id, weapon, stats.speed),
                     !.proj_count = @ + 1,
                     !.next_proj_id = @ + 1]
             ELSE state
        ELSE SpawnPellets(state, player_idx,
                          AimDir(state.players[player_idx], aim_x, aim_y), stats, 1)

spawn_weapon_projectiles(state, player_idx, aim_x, aim_y) ==
    LET weapon == state.players[player_idx].weapon
        stats == fp_weapon_stats(weapon)
    IN  IF weapon = WEAPON_NONE THEN state
        ELSE IF stats.pellets = 1
        THEN IF state.proj_count < MAX_PROJECTILES
             THEN [state EXCEPT
                     !.projectiles[state.proj_count] =
                         spawn_projectile(state.players[player_idx], aim_x, aim_y,
                                          state.next_proj_id, weapon, stats.speed),
                     !.proj_count = @ + 1,
                     !.next_proj_id = @ + 1]
             ELSE state
        ELSE SpawnPellets(state, player_idx,
                          AimDir(state.players[player_idx], aim_x, aim_y), stats, 0)

is_out_of_bounds(proj, map) ==
    LET m == 50 * 256
    IN  proj.x < -m \/ proj.x > map.width + m \/ proj.y < -m \/ proj.y > map.height + m

hits_solid(proj, map) ==
    LET buf == 4 * 256
    IN  \/ \E i \in 0..(NUM_PLATFORMS - 1) :
              LET plat == map.platforms[i]
              IN  /\ plat.width # 0
                  /\ proj.x >= plat.x /\ proj.x <= plat.x + plat.width
                  /\ proj.y >= plat.y - buf /\ proj.y <= plat.y + plat.height
        \/ proj.x <= 0 \/ proj.x >= map.width
        \/ proj.y <= 0 \/ proj.y >= map.height

aabb_hit(px, py, rx, ry, rw, rh) ==
    px >= rx /\ px <= rx + rw /\ py >= ry /\ py <= ry + rh

\* KillList::push: a list of <<killer, victim>> that silently drops pushes
\* beyond its capacity.
KillPush(kills, killer, victim) ==
    IF Len(kills) < KILL_LIST_CAP THEN Append(kills, << killer, victim >>) ELSE kills

contains_victim(kills, id) == \E k \in 1..Len(kills) : kills[k][2] = id

SKIP_NONE == [some |-> FALSE, id |-> 0]
SkipSome(id) == [some |-> TRUE, id |-> id]

\* apply_fp_splash_damage on pk = [players, kills], from player i onward.
RECURSIVE SplashFrom(_, _, _, _, _, _)
SplashFrom(ex, ey, owner_id, skip_id, pk, i) ==
    IF i >= 2 THEN pk
    ELSE LET pl == pk.players[i]
             stats == fp_weapon_stats(WEAPON_ROCKET)
             pcx == pl.x + PLAYER_WIDTH \div 2
             pcy == pl.y + PLAYER_HEIGHT \div 2
             dist == Abs(pcx - ex) + Abs(pcy - ey)
             dmg == stats.splash_damage
                    - TruncDiv(stats.splash_damage * dist, stats.splash_radius)
             new_hp == pl.health - dmg
         IN  IF \/ ~IsAlive(pl)
                \/ IsInvincible(pl)
                \/ pl.id = owner_id
                \/ (skip_id.some /\ skip_id.id = pl.id)
                \/ ~(dist < stats.splash_radius)
                \/ ~(dmg > 0)
             THEN SplashFrom(ex, ey, owner_id, skip_id, pk, i + 1)
             ELSE IF new_hp <= 0
             THEN SplashFrom(ex, ey, owner_id, skip_id,
                    [players |-> [pk.players EXCEPT ![i].health = 0, ![i].state_flags = 0],
                     kills |-> KillPush(pk.kills, owner_id, pl.id)], i + 1)
             ELSE SplashFrom(ex, ey, owner_id, skip_id,
                    [players |-> [pk.players EXCEPT ![i].health = new_hp],
                     kills |-> pk.kills], i + 1)

apply_fp_splash_damage(ex, ey, owner_id, skip_id, pk) ==
    SplashFrom(ex, ey, owner_id, skip_id, pk, 0)

\* In-place compaction as both compaction loops perform it: the kept entries
\* move to the front in order, the slots from the new count on keep what they held.
RECURSIVE KeptIndices(_, _, _)
KeptIndices(dead, count, read) ==
    IF read >= count THEN << >>
    ELSE (IF dead[read] THEN << >> ELSE << read >>) \o KeptIndices(dead, count, read + 1)

CompactInPlace(projectiles, kept) ==
    [k \in 0..(MAX_PROJECTILES - 1) |->
        IF k < Len(kept) THEN projectiles[kept[k + 1]] ELSE projectiles[k]]

\* Step 8 of step_mut, per projectile: move and age.
AdvanceProjectile(pr) ==
    [pr EXCEPT !.x = pr.x + pr.vx, !.y = pr.y + pr.vy, !.lifetime = pr.lifetime - 1]

\* expired || oob || solid
ProjectileDead(pr, map) ==
    pr.lifetime <= 0 \/ is_out_of_bounds(pr, map) \/ hits_solid(pr, map)

\* Step 8: rocket splash on any destruction, in slot order.
RECURSIVE DestroySplashFrom(_, _, _, _, _)
DestroySplashFrom(adv, dead, count, pk, read) ==
    IF read >= count THEN pk
    ELSE IF dead[read] /\ adv[read].weapon = WEAPON_ROCKET
    THEN DestroySplashFrom(adv, dead, count,
            apply_fp_splash_damage(adv[read].x, adv[read].y, adv[read].owner_id,
                                   SKIP_NONE, pk),
            read + 1)
    ELSE DestroySplashFrom(adv, dead, count, pk, read + 1)

\* Step 8 of step_mut: move projectiles in place and compact the dead ones.
\* Returns [state, kills] (kills = solid_kills).
MoveProjectiles(state, map) ==
    LET count == state.proj_count
        Build(adv, pk, kept) ==
            [state |-> [state EXCEPT !.players = pk.players,
                                     !.projectiles = CompactInPlace(adv, kept),
                                     !.proj_count = Len(kept)],
             kills |-> pk.kills]
        WithDead(adv, dead) ==
            Build(adv,
                  DestroySplashFrom(adv, dead, count,
                                    [players |-> state.players, kills |-> << >>], 0),
                  KeptIndices(dead, count, 0))
        WithAdvanced(adv) ==
            WithDead(adv, [k \in 0..(MAX_PROJECTILES - 1) |->
                              k < count /\ ProjectileDead(adv[k], map)])
    IN  WithAdvanced([k \in 0..(MAX_PROJECTILES - 1) |->
                         IF k < count THEN AdvanceProjectile(state.projectiles[k])
                         ELSE state.projectiles[k]])

\* The player loop of resolve_hits_mut for one projectile: the first player the
\* projectile hits, -1 when none.
RECURSIVE HitPlayer(_, _, _)
HitPlayer(players, proj, i) ==
    IF i >= 2 THEN -1
    ELSE IF /\ players[i].id # proj.owner_id
            /\ IsAlive(players[i])
            /\ ~IsInvincible(players[i])
            /\ aabb_hit(proj.x, proj.y, players[i].x, players[i].y,
                        PLAYER_WIDTH, PLAYER_HEIGHT)
    THEN i
    ELSE HitPlayer(players, proj, i + 1)

\* A direct hit whose rocket splash spares nobody but the owner.
ApplyHitSplashAll(pk, proj, i) ==
    LET victim_id == pk.players[i].id
        new_hp == pk.players[i].health - fp_weapon_stats(proj.weapon).damage
        Splash(pk1) ==
            IF proj.weapon = WEAPON_ROCKET
            THEN apply_fp_splash_damage(proj.x, proj.y, proj.owner_id, SKIP_NONE, pk1)
            ELSE pk1
    IN  IF new_hp <= 0
        THEN Splash([players |-> [pk.players EXCEPT ![i].health = 0, ![i].state_flags = 0],
                     kills |-> KillPush(pk.kills, proj.owner_id, victim_id)])
        ELSE Splash([players |-> [pk.players EXCEPT ![i].health = new_hp],
                     kills |-> pk.kills])

\* Direct-hit damage and the rocket splash that follows it.
ApplyHit(pk, proj, i) ==
    LET victim_id == pk.players[i].id
        new_hp == pk.players[i].health - fp_weapon_stats(proj.weapon).damage
        Splash(pk1) ==
            IF proj.weapon = WEAPON_ROCKET
            THEN apply_fp_splash_damage(proj.x, proj.y, proj.owner_id,
                                        SkipSome(victim_id), pk1)
            ELSE pk1
    IN  IF new_hp <= 0
        THEN Splash([players |-> [pk.players EXCEPT ![i].health = 0, ![i].state_flags = 0],
                     kills |-> KillPush(pk.kills, proj.owner_id, victim_id)])
        ELSE Splash([players |-> [pk.players EXCEPT ![i].health = new_hp],
                     kills |-> pk.kills])

\* The projectile loop of resolve_hits_mut on r = [players, kills, hit_flags].
RECURSIVE HitsFrom(_, _, _, _)
HitsFrom(projectiles, count, r, pi) ==
    LET Flag(pk) == [players |-> pk.players, kills |-> pk.kills,
                     hit_flags |-> [r.hit_flags EXCEPT ![pi] = TRUE]]
        Hit(i) == IF i < 0 THEN r
                  ELSE Flag(ApplyHit([players |-> r.players, kills |-> r.kills],
                                     projectiles[pi], i))
    IN  IF pi >= count THEN r
        ELSE HitsFrom(projectiles, count, Hit(HitPlayer(r.players, projectiles[pi], 0)),
                      pi + 1)

\* Returns [state, kills].
resolve_hits_mut(state) ==
    LET Build(r, kept) ==
            [state |-> [state EXCEPT !.players = r.players,
                                     !.projectiles = CompactInPlace(state.projectiles, kept),
                                     !.proj_count = Len(kept)],
             kills |-> r.kills]
        Compact(r) == Build(r, KeptIndices(r.hit_flags, state.proj_count, 0))
    IN  Compact(HitsFrom(state.projectiles, state.proj_count,
                         [players |-> state.players, kills |-> << >>,
                          hit_flags |-> [k \in 0..(MAX_PROJECTILES - 1) |-> FALSE]], 0))

(* ------------------------------------------------------------------ *)
(* Stomp                                                                *)
(* ------------------------------------------------------------------ *)
clear_stomp_fields(p) ==
    [p EXCEPT !.stomped_by = -1,
              !.stomping_on = -1,
              !.stomp_shake_progress = 0,
              !.stomp_last_shake_dir = 0,
              !.stomp_auto_run_dir = 0,
              !.stomp_auto_run_timer = 0]

\* The guard of one iteration of the stomp detection loop: A falls onto B's head.
StompStarts(state, a_idx) ==
    LET a == state.players[a_idx]
        b == state.players[1 - a_idx]
        a_feet == a.y + PLAYER_HEIGHT
    IN  /\ ~(a.stomping_on >= 0)
        /\ ~(a.stomped_by >= 0)
        /\ ~(b.stomped_by >= 0)
        /\ ~(b.stomp_cooldown > 0)
        /\ IsAlive(a)
        /\ IsAlive(b)
        /\ a.vy > 0
        /\ a_feet >= b.y /\ a_feet <= b.y + Fp(8)
        /\ a.x + PLAYER_WIDTH > b.x
        /\ a.x < b.x + PLAYER_WIDTH

\* Initiate stomp: link both players, draw the auto-run direction and timer.
StompInitiate(state, a_idx) ==
    LET b_idx == 1 - a_idx
        \* d is the direction draw; tm the timer draw that follows it.
        Link(d, tm) ==
            [state EXCEPT
               !.players[a_idx].stomping_on = state.players[b_idx].id,
               !.players[a_idx].grounded = TRUE,
               !.players[a_idx].vy = 0,
               !.players[a_idx].y = state.players[b_idx].y - PLAYER_HEIGHT,
               !.players[b_idx].stomped_by = state.players[a_idx].id,
               !.players[b_idx].stomp_shake_progress = 0,
               !.players[b_idx].stomp_last_shake_dir = 0,
               !.players[b_idx].stomp_auto_run_dir = IF d.val = 0 THEN -1 ELSE 1,
               !.players[b_idx].stomp_auto_run_timer = tm.val,
               !.rng_state = tm.rng]
        Draw(d) == Link(d, prng_int_range(d.rng, STOMP_AUTO_RUN_MIN, STOMP_AUTO_RUN_MAX))
    IN  Draw(prng_int_range(state.rng_state, 0, 1))

RECURSIVE StompDetectFrom(_, _)
StompDetectFrom(state, a_idx) ==
    IF a_idx >= 2 THEN state
    ELSE IF StompStarts(state, a_idx)
    THEN StompDetectFrom(StompInitiate(state, a_idx), a_idx + 1)
    ELSE StompDetectFrom(state, a_idx + 1)

\* score[killer] += 1 when killer indexes the score array.
AddScore(score, killer) ==
    IF killer >= 0 /\ killer < 2 THEN [score EXCEPT ![killer] = @ + 1] ELSE score

\* Stomp kill: victim dies, rider is launched, the kill is scored.
StompKill(state, victim_idx, rider_idx) ==
    LET v == clear_stomp_fields([state.players[victim_idx] EXCEPT
                                    !.health = 0, !.state_flags = 0])
    IN  [state EXCEPT
           !.players[victim_idx] = [v EXCEPT !.lives = v.lives - 1],
           !.players[rider_idx].stomping_on = -1,
           !.players[rider_idx].vy = TruncDiv(JUMP_VELOCITY, 2),
           !.players[rider_idx].grounded = FALSE,
           !.score = AddScore(state.score, state.players[rider_idx].id)]

\* Auto-run of the victim: timer, direction flip with a fresh PRNG timer, vx.
StompAutoRun(state, victim_idx) ==
    LET v == state.players[victim_idx]
        Run(timer, dir, rng) ==
            [state EXCEPT
               !.players[victim_idx].stomp_auto_run_timer = timer,
               !.players[victim_idx].stomp_auto_run_dir = dir,
               !.players[victim_idx].vx = PLAYER_SPEED * dir,
               !.rng_state = rng]
        Flip(r) == Run(r.val, v.stomp_auto_run_dir * (-1), r.rng)
    IN  IF v.stomp_auto_run_timer - 1 <= 0
        THEN Flip(prng_int_range(state.rng_state, STOMP_AUTO_RUN_MIN, STOMP_AUTO_RUN_MAX))
        ELSE Run(v.stomp_auto_run_timer - 1, v.stomp_auto_run_dir, state.rng_state)

\* Shake-off detection (alternating L/R edges) followed by the decay.
StompShake(v, v_buttons, v_prev) ==
    LET left_edge == HasBit(v_buttons, BTN_LEFT) /\ ~HasBit(v_prev, BTN_LEFT)
        right_edge == HasBit(v_buttons, BTN_RIGHT) /\ ~HasBit(v_prev, BTN_RIGHT)
        v1 == IF left_edge /\ v.stomp_last_shake_dir # -1
              THEN [v EXCEPT !.stomp_shake_progress = @ + STOMP_SHAKE_PER_PRESS,
                             !.stomp_last_shake_dir = -1]
              ELSE v
        v2 == IF right_edge /\ v1.stomp_last_shake_dir # 1
              THEN [v1 EXCEPT !.stomp_shake_progress = @ + STOMP_SHAKE_PER_PRESS,
                              !.stomp_last_shake_dir = 1]
              ELSE v1
    IN  [v2 EXCEPT !.stomp_shake_progress = Max(v2.stomp_shake_progress - STOMP_SHAKE_DECAY, 0)]

\* Break free that forgets to release the rider's stomping_on.
StompBreakFreeKeepsRider(state, victim_idx, rider_idx) ==
    [state EXCEPT
       !.players[rider_idx].vy = JUMP_VELOCITY,
       !.players[rider_idx].grounded = FALSE,
       !.players[victim_idx] =
           clear_stomp_fields([state.players[victim_idx] EXCEPT
                                  !.stomp_cooldown = STOMP_COOLDOWN_TICKS])]

\* Break free: rider is launched, victim gets the re-stomp cooldown.
StompBreakFree(state, victim_idx, rider_idx) ==
    [state EXCEPT
       !.players[rider_idx].stomping_on = -1,
       !.players[rider_idx].vy = JUMP_VELOCITY,
       !.players[rider_idx].grounded = FALSE,
       !.players[victim_idx] =
           clear_stomp_fields([state.players[victim_idx] EXCEPT
                                  !.stomp_cooldown = STOMP_COOLDOWN_TICKS])]

\* Lock rider to victim position.
StompLockRider(state, victim_idx, rider_idx) ==
    [state EXCEPT
       !.players[rider_idx].x = state.players[victim_idx].x,
       !.players[rider_idx].y = state.players[victim_idx].y - PLAYER_HEIGHT,
       !.players[rider_idx].vx = 0,
       !.players[rider_idx].vy = 0,
       !.players[rider_idx].grounded = TRUE]

\* One iteration of the "process active stomps" loop.
ProcessStomp(state, victim_idx, inputs, prev_buttons, current_tick) ==
    LET rider_id == state.players[victim_idx].stomped_by
        rider_idx == IF state.players[0].id = rider_id THEN 0 ELSE 1
        damage_tick == current_tick % STOMP_DAMAGE_INTERVAL = 0
        BreakOrLock(s) ==
            IF s.players[victim_idx].stomp_shake_progress >= STOMP_SHAKE_THRESHOLD
            THEN StompBreakFree(s, victim_idx, rider_idx)
            ELSE StompLockRider(s, victim_idx, rider_idx)
        Shake(s) ==
            BreakOrLock([s EXCEPT !.players[victim_idx] =
                            StompShake(s.players[victim_idx], inputs[victim_idx].buttons,
                                       prev_buttons[victim_idx])])
        Damaged(s) ==
            IF damage_tick /\ s.players[victim_idx].health <= 0
            THEN StompKill(s, victim_idx, rider_idx)
            ELSE Shake(StompAutoRun(s, victim_idx))
    IN  IF state.players[victim_idx].stomped_by < 0 THEN state
        ELSE IF \/ ~IsAlive(state.players[rider_idx])
                \/ state.players[rider_idx].stomping_on # state.players[victim_idx].id
        THEN [state EXCEPT !.players[victim_idx] = clear_stomp_fields(@)]
        ELSE Damaged(IF damage_tick
                     THEN [state EXCEPT
                             !.players[victim_idx].health = @ - STOMP_DAMAGE_PER_HIT]
                     ELSE state)

RECURSIVE ProcessStompsFrom(_, _, _, _, _)
ProcessStompsFrom(state, victim_idx, inputs, prev_buttons, current_tick) ==
    IF victim_idx >= 2 THEN state
    ELSE ProcessStompsFrom(
            ProcessStomp(state, victim_idx, inputs, prev_buttons, current_tick),
            victim_idx + 1, inputs, prev_buttons, current_tick)

(* ------------------------------------------------------------------ *)
(* step_mut                                                             *)
(* ------------------------------------------------------------------ *)
\* apply_input_mut, apply_gravity_mut and move_and_collide_mut for one player.
MovePlayer(p, input, prev_b, map) ==
    move_and_collide_mut(
        apply_gravity_mut(apply_input_mut(p, input.buttons, prev_b, input.aim_x)),
        input.buttons, map)

\* The movement loop of the match_over and death-linger gates: alive players only.
MoveAlivePlayers(players, inputs, prev_buttons, map) ==
    [i \in 0..1 |->
        IF IsAlive(players[i]) THEN MovePlayer(players[i], inputs[i], prev_buttons[i], map)
        ELSE players[i]]

InputButtons(inputs) == [i \in 0..1 |-> inputs[i].buttons]

\* A linger end that clears the arena and leaves the match running.
LingerEndNoLatch(state) ==
    [state EXCEPT
       !.death_linger_timer = 0,
       !.proj_count = 0,
       !.pickup_count = 0,
       !.players = [i \in 0..1 |-> [state.players[i] EXCEPT !.weapon = WEAPON_NONE,
                                                          !.ammo = 0]]]

\* A linger end that hands the win to the other player.
LingerEndOtherWinner(state) ==
    [state EXCEPT
       !.match_over = TRUE,
       !.death_linger_timer = 0,
       !.proj_count = 0,
       !.pickup_count = 0,
       !.winner = 1 - state.winner,
       !.players = [i \in 0..1 |-> [state.players[i] EXCEPT !.weapon = WEAPON_NONE,
                                                          !.ammo = 0]]]

\* A linger end that latches and clears the arena but leaves the weapons held.
LingerEndKeepsWeapons(state) ==
    [state EXCEPT
       !.match_over = TRUE,
       !.death_linger_timer = 0,
       !.proj_count = 0,
       !.pickup_count = 0]

\* Linger end: the match latches over; projectiles, pickups and weapons are cleared.
LingerEnd(state) ==
    [state EXCEPT
       !.match_over = TRUE,
       !.death_linger_timer = 0,
       !.proj_count = 0,
       !.pickup_count = 0,
       !.players = [i \in 0..1 |-> [state.players[i] EXCEPT !.weapon = WEAPON_NONE,
                                                          !.ammo = 0]]]

\* A linger gate whose timer stands still on every other tick.
StepLingerSlow(state, inputs, map) ==
    LET Move(s) ==
            [s EXCEPT
               !.players = MoveAlivePlayers(s.players, inputs, state.prev_buttons, map),
               !.prev_buttons = InputButtons(inputs)]
        Countdown(s) == Move(IF s.death_linger_timer <= 0 THEN LingerEnd(s) ELSE s)
    IN  Countdown([state EXCEPT !.tick = state.tick + 1,
                                !.death_linger_timer =
                                    state.death_linger_timer - (state.tick % 2)])

\* A linger gate whose timer runs at twice the speed.
StepLingerDoubleTime(state, inputs, map) ==
    LET Move(s) ==
            [s EXCEPT
               !.players = MoveAlivePlayers(s.players, inputs, state.prev_buttons, map),
               !.prev_buttons = InputButtons(inputs)]
        Countdown(s) == Move(IF s.death_linger_timer <= 0 THEN LingerEnd(s) ELSE s)
    IN  Countdown([state EXCEPT !.tick = state.tick + 1,
                                !.death_linger_timer = state.death_linger_timer - 2])

\* A linger gate that ends the match on its first tick, timer still running.
StepLingerLatchesAtOnce(state, inputs, map) ==
    [state EXCEPT
       !.tick = state.tick + 1,
       !.death_linger_timer = state.death_linger_timer - 1,
       !.match_over = TRUE,
       !.players = MoveAlivePlayers(state.players, inputs, state.prev_buttons, map),
       !.prev_buttons = InputButtons(inputs)]

\* The death-linger gate.
StepLinger(state, inputs, map) ==
    LET Move(s) ==
            [s EXCEPT
               !.players = MoveAlivePlayers(s.players, inputs, state.prev_buttons, map),
               !.prev_buttons = InputButtons(inputs)]
        Countdown(s) == Move(IF s.death_linger_timer <= 0 THEN LingerEnd(s) ELSE s)
    IN  Countdown([state EXCEPT !.tick = state.tick + 1,
                                !.death_linger_timer = state.death_linger_timer - 1])

\* Step 2: shoot cooldown, invincibility and stomp cooldown of one player.
TickCooldowns(p) ==
    LET Stomp(q) == IF q.stomp_cooldown > 0 /\ q.stomped_by < 0
                    THEN [q EXCEPT !.stomp_cooldown = @ - 1]
                    ELSE q
        Invincibility(q) ==
            Stomp(IF IsInvincible(q)
                  THEN IF q.respawn_timer - 1 <= 0
                       THEN [q EXCEPT !.state_flags = @ - FLAG_INVINCIBLE,
                                      !.respawn_timer = 0]
                       ELSE [q EXCEPT !.respawn_timer = @ - 1]
                  ELSE q)
    IN  IF ~IsAlive(p) THEN p
        ELSE Invincibility([p EXCEPT !.shoot_cooldown = Max(p.shoot_cooldown - 1, 0)])

\* A step 7 in which an empty hand fires a pistol round.
ShootBareHanded(state, i, input) ==
    LET pl == state.players[i]
        shoot_aim_x == IF pl.wall_sliding THEN -pl.wall_dir ELSE input.aim_x
        held == IF pl.weapon = WEAPON_NONE THEN WEAPON_PISTOL ELSE pl.weapon
        Spend(s) == [s EXCEPT !.players[i].ammo = Max(pl.ammo - 1, 0),
                              !.players[i].weapon =
                                  IF pl.ammo - 1 <= 0 THEN WEAPON_NONE ELSE pl.weapon]
    IN  IF /\ IsAlive(pl)
           /\ HasBit(input.buttons, BTN_SHOOT)
           /\ pl.shoot_cooldown <= 0
        THEN Spend(spawn_weapon_projectiles(
                     [state EXCEPT
                        !.players[i].weapon = held,
                        !.players[i].shoot_cooldown = fp_weapon_stats(held).cooldown],
                     i, shoot_aim_x, input.aim_y))
        ELSE state

\* A step 7 that spends the ammo and keeps the empty weapon in hand.
ShootKeepsWeapon(state, i, input) ==
    LET pl == state.players[i]
        shoot_aim_x == IF pl.wall_sliding THEN -pl.wall_dir ELSE input.aim_x
        Spend(s) == [s EXCEPT !.players[i].ammo = @ - 1]
    IN  IF /\ IsAlive(pl)
           /\ HasBit(input.buttons, BTN_SHOOT)
           /\ pl.shoot_cooldown <= 0
           /\ pl.weapon # WEAPON_NONE
           /\ pl.ammo > 0
        THEN Spend(spawn_weapon_projectiles(
                     [state EXCEPT
                        !.players[i].shoot_cooldown = fp_weapon_stats(pl.weapon).cooldown],
                     i, shoot_aim_x, input.aim_y))
        ELSE state

\* A shooting step that drops the weapon with one round left in it.
ShootDropsEarly(state, i, input) ==
    LET pl == state.players[i]
        shoot_aim_x == IF pl.wall_sliding THEN -pl.wall_dir ELSE input.aim_x
        Spend(s) == [s EXCEPT !.players[i].ammo = @ - 1,
                              !.players[i].weapon =
                                  IF pl.ammo - 1 <= 1 THEN WEAPON_NONE ELSE @]
    IN  IF /\ IsAlive(pl)
           /\ HasBit(input.buttons, BTN_SHOOT)
           /\ pl.shoot_cooldown <= 0
           /\ pl.weapon # WEAPON_NONE
           /\ pl.ammo > 0
        THEN Spend(spawn_weapon_projectiles(
                     [state EXCEPT
                        !.players[i].shoot_cooldown = fp_weapon_stats(pl.weapon).cooldown],
                     i, shoot_aim_x, input.aim_y))
        ELSE state

\* Step 7 for one player: fire when able, spend ammo, drop the empty weapon.
Shoot(state, i, input) ==
    LET pl == state.players[i]
        shoot_aim_x == IF pl.wall_sliding THEN -pl.wall_dir ELSE input.aim_x
        Spend(s) == [s EXCEPT !.players[i].ammo = @ - 1,
                              !.players[i].weapon =
                                  IF pl.ammo - 1 <= 0 THEN WEAPON_NONE ELSE @]
    IN  IF /\ IsAlive(pl)
           /\ HasBit(input.buttons, BTN_SHOOT)
           /\ pl.shoot_cooldown <= 0
           /\ pl.weapon # WEAPON_NONE
           /\ pl.ammo > 0
        THEN Spend(spawn_weapon_projectiles(
                     [state EXCEPT
                        !.players[i].shoot_cooldown = fp_weapon_stats(pl.weapon).cooldown],
                     i, shoot_aim_x, input.aim_y))
        ELSE state

\* Step 10 for one player: lives, velocity, and breaking the stomp links.
ApplyDeath(state, p_idx) ==
    LET other == 1 - p_idx
        my_id == state.players[p_idx].id
        Victim(o) == IF o.stomped_by = my_id THEN clear_stomp_fields(o) ELSE o
        Rider(o) == Victim(IF o.stomping_on = my_id
                           THEN [o EXCEPT !.stomping_on = -1, !.grounded = FALSE]
                           ELSE o)
    IN  [state EXCEPT
           !.players[other] = Rider(state.players[other]),
           !.players[p_idx] =
               clear_stomp_fields([state.players[p_idx] EXCEPT
                                      !.lives = @ - 1, !.respawn_timer = 0,
                                      !.vx = 0, !.vy = 0])]

RECURSIVE DeathsFrom(_, _, _, _)
DeathsFrom(state, hit_kills, solid_kills, p_idx) ==
    IF p_idx >= 2 THEN state
    ELSE IF \/ contains_victim(hit_kills, state.players[p_idx].id)
            \/ contains_victim(solid_kills, state.players[p_idx].id)
    THEN DeathsFrom(ApplyDeath(state, p_idx), hit_kills, solid_kills, p_idx + 1)
    ELSE DeathsFrom(state, hit_kills, solid_kills, p_idx + 1)

\* The id of the last player (in index order) satisfying has[i], -1 when none.
LastId(players, has) ==
    IF has[1] THEN players[1].id ELSE IF has[0] THEN players[0].id ELSE -1

CountOf(has) == (IF has[0] THEN 1 ELSE 0) + (IF has[1] THEN 1 ELSE 0)

\* Elimination check after deaths: counts players with lives left.
CheckElimination(state) ==
    LET has == [i \in 0..1 |-> state.players[i].lives > 0]
    IN  IF CountOf(has) = 1
        THEN [state EXCEPT !.death_linger_timer = DEATH_LINGER_TICKS,
                           !.winner = LastId(state.players, has)]
        ELSE IF CountOf(has) = 0
        THEN [state EXCEPT !.death_linger_timer = DEATH_LINGER_TICKS, !.winner = 0]
        ELSE state

\* A zone that hurts nobody.
ZoneDamageNone(p, arena_left, arena_right, burst_dmg) == p

\* Zone burst damage on one player.
ZoneDamage(p, arena_left, arena_right, burst_dmg) ==
    LET px_center == p.x + PLAYER_WIDTH \div 2
    IN  IF ~IsAlive(p) THEN p
        ELSE IF px_center < arena_left \/ px_center > arena_right
        THEN IF p.health - burst_dmg <= 0
             THEN [p EXCEPT !.health = 0, !.lives = @ - 1, !.state_flags = 0,
                            !.vx = 0, !.vy = 0]
             ELSE [p EXCEPT !.health = @ - burst_dmg]
        ELSE p

\* Elimination check after zone damage: counts players with the ALIVE flag.
CheckZoneElimination(state) ==
    LET has == [i \in 0..1 |-> IsAlive(state.players[i])]
    IN  IF CountOf(has) = 1 /\ state.death_linger_timer = 0
        THEN [state EXCEPT !.death_linger_timer = DEATH_LINGER_TICKS,
                           !.winner = LastId(state.players, has)]
        ELSE IF CountOf(has) = 0 /\ state.death_linger_timer = 0
        THEN [state EXCEPT !.death_linger_timer = DEATH_LINGER_TICKS,
                           !.winner = IF state.score[0] >= state.score[1] THEN 0 ELSE 1]
        ELSE state

\* A damage zone whose progress is not capped at full closure.
SuddenDeathUncapped(state, current_tick, map) ==
    LET elapsed == current_tick - state.cfg_sudden_death
        progress == TruncDiv(elapsed * ONE, SUDDEN_DEATH_DURATION)
        half_w == TruncDiv(map.width, 2)
        dmg_progress == Min(elapsed, SUDDEN_DEATH_DURATION)
        burst_dmg == Max(TruncDiv(dmg_progress * ZONE_DMG_INTERVAL,
                                  SUDDEN_DEATH_DURATION * 3), 1)
        Zone(s) ==
            CheckZoneElimination(
                IF dmg_progress > 0 /\ elapsed % ZONE_DMG_INTERVAL = 0
                THEN [s EXCEPT !.players =
                         [i \in 0..1 |-> ZoneDamage(s.players[i], s.arena_left,
                                                    s.arena_right, burst_dmg)]]
                ELSE s)
    IN  IF ~state.match_over /\ state.death_linger_timer = 0
           /\ current_tick >= state.cfg_sudden_death
        THEN Zone([state EXCEPT !.arena_left = Mul(progress, half_w),
                                !.arena_right = map.width - Mul(progress, half_w)])
        ELSE state

\* Step 12: the closing damage zone.
SuddenDeath(state, current_tick, map) ==
    LET elapsed == current_tick - state.cfg_sudden_death
        progress == IF elapsed >= SUDDEN_DEATH_DURATION THEN ONE
                    ELSE TruncDiv(elapsed * ONE, SUDDEN_DEATH_DURATION)
        half_w == TruncDiv(map.width, 2)
        dmg_progress == Min(elapsed, SUDDEN_DEATH_DURATION)
        burst_dmg == Max(TruncDiv(dmg_progress * ZONE_DMG_INTERVAL,
                                  SUDDEN_DEATH_DURATION * 3), 1)
        Zone(s) ==
            CheckZoneElimination(
                IF dmg_progress > 0 /\ elapsed % ZONE_DMG_INTERVAL = 0
                THEN [s EXCEPT !.players =
                         [i \in 0..1 |-> ZoneDamage(s.players[i], s.arena_left,
                                                    s.arena_right, burst_dmg)]]
                ELSE s)
    IN  IF ~state.match_over /\ state.death_linger_timer = 0
           /\ current_tick >= state.cfg_sudden_death
        THEN Zone([state EXCEPT !.arena_left = Mul(progress, half_w),
                                !.arena_right = map.width - Mul(progress, half_w)])
        ELSE state

\* A time-up that always names player 0.
TimeUpPlayer0(state, current_tick) ==
    IF ~state.match_over /\ state.death_linger_timer = 0
       /\ current_tick >= state.cfg_match_duration
    THEN [state EXCEPT !.match_over = TRUE, !.winner = 0]
    ELSE state

\* Step 13: time-up, decided by lives, then health, then player 0.
TimeUp(state, current_tick) ==
    IF ~state.match_over /\ state.death_linger_timer = 0
       /\ current_tick >= state.cfg_match_duration
    THEN LET p0 == state.players[0]
             p1 == state.players[1]
         IN  [state EXCEPT
                !.match_over = TRUE,
                !.winner = IF p0.lives > p1.lives THEN p0.id
                           ELSE IF p1.lives > p0.lives THEN p1.id
                           ELSE IF p0.health > p1.health THEN p0.id
                           ELSE IF p1.health > p0.health THEN p1.id
                           ELSE 0]
    ELSE state

\* Step 14: one point per recorded kill.
RECURSIVE ScoreKills(_, _, _)
ScoreKills(score, kills, k) ==
    IF k > Len(kills) THEN score
    ELSE ScoreKills(AddScore(score, kills[k][1]), kills, k + 1)

\* The normal path of step_mut (neither gate taken).
StepNormal(state, inputs, map) ==
    LET current_tick == state.tick + 1
        prev_buttons == state.prev_buttons
        \* 15-16. pickup timers, prev_buttons
        Finish(s) == [tick_pickup_timers(s) EXCEPT !.prev_buttons = InputButtons(inputs)]
        \* 14. score
        Score(s, hit_kills, solid_kills) ==
            Finish([s EXCEPT !.score = ScoreKills(ScoreKills(s.score, hit_kills, 1),
                                                  solid_kills, 1)])
        \* 10-13. deaths, elimination, sudden death, time-up
        Outcome(s, hit_kills, solid_kills) ==
            Score(TimeUp(SuddenDeath(CheckElimination(
                             DeathsFrom(s, hit_kills, solid_kills, 0)),
                         current_tick, map), current_tick),
                  hit_kills, solid_kills)
        \* 9. projectile hits
        Hits(h, solid_kills) == Outcome(h.state, h.kills, solid_kills)
        Projectiles(m) == Hits(resolve_hits_mut(m.state), m.kills)
        \* 6-8. pickups, shooting, projectile movement
        Combat(s) ==
            Projectiles(MoveProjectiles(
                Shoot(Shoot(resolve_weapon_pickups(s), 0, inputs[0]), 1, inputs[1]), map))
        \* 5, 5b. stomp detection and processing
        Stomps(s) ==
            Combat(ProcessStompsFrom(StompDetectFrom(s, 0), 0, inputs, prev_buttons,
                                     current_tick))
        \* 3. input, gravity, move and collide
        Move(s) ==
            Stomps([s EXCEPT !.players =
                       [i \in 0..1 |-> MovePlayer(s.players[i], inputs[i],
                                                  prev_buttons[i], map)]])
    \* 2. cooldowns
    IN  Move([state EXCEPT
                !.tick = current_tick,
                !.players = [i \in 0..1 |-> TickCooldowns(state.players[i])]])

\* step_mut without its match_over gate: a finished match runs the normal path.
StepMatchOverUngated(state, inputs, map) == StepNormal(state, inputs, map)

\* The match_over gate: tick counter, taunt movement, prev_buttons; nothing else.
StepMatchOver(state, inputs, map) ==
    [state EXCEPT
       !.tick = state.tick + 1,
       !.players = MoveAlivePlayers(state.players, inputs, state.prev_buttons, map),
       !.prev_buttons = InputButtons(inputs)]

step_mut(state, inputs, map) ==
    IF state.match_over THEN StepMatchOver(state, inputs, map)
    ELSE IF state.death_linger_timer > 0 THEN StepLinger(state, inputs, map)
    ELSE StepNormal(state, inputs, map)

(* ------------------------------------------------------------------ *)
(* The match as a state machine: one step_mut call per action           *)
(* ------------------------------------------------------------------ *)
VARIABLES
    state,       \* the game State being stepped
    prev,        \* the State before the last step_mut call (history)
    scenario,    \* which input scenario drives the match
    taunts       \* number of ticks stepped after match_over latched

gameVars == << state, prev, scenario, taunts >>

\* The proving pipeline (host, chunk guest, composer, streaming runner).
VARIABLES
    pc,               \* which program of the pipeline runs, and where it is
    input,            \* the FpProverInput: seed and transcript length
    attack,           \* how the composer's input differs from the host's
    chunk_idx,        \* chunk loop index of the running program
    tick_idx,         \* tick loop index of the running program
    hasher,           \* bytes fed so far to the running program's Sha256
    boundary_states,  \* host: the state before each chunk
    guest,            \* what the running guest read: its input bytes and header
    journals,         \* journals committed by the chunk guest runs, in order
    fed,              \* the chunk journals the composer reads
    composer,         \* composer locals: prev_hash, transcript hasher, finals
    output,           \* the journal the composer committed, if any
    streaming,        \* the StreamingResult of run_streaming, if any
    monolithic        \* the result of the decode / step / hash path, if any

chunkVars ==
    << pc, input, attack, chunk_idx, tick_idx, hasher, boundary_states, guest, journals,
       fed, composer, output, streaming, monolithic >>

\* The settlement contract and its collaborators.
VARIABLES
    instance,    \* instance storage: Admin, GameHub, Verifier, ImageId
    matches,     \* temporary storage: session id -> MatchData
    hub_log,     \* effects the game hub accepted, in order
    last,        \* the last contract invocation: arguments, trace, result
    calls        \* number of invocations so far

contractVars == << instance, matches, hub_log, last, calls >>

\* Conversions and rules of the program applied on their own to chosen
\* arguments.
VARIABLES
    probe,       \* the arguments chosen, tagged with what they are for
    answer       \* what the code under study returned for them, if it has run

pureVars == << probe, answer >>

vars == << gameVars, chunkVars, contractVars, pureVars >>

\* Placeholder of a record-valued variable that holds nothing yet.
NONE == [none |-> TRUE]

\* No arguments chosen.
PureOff ==
    /\ probe = NONE
    /\ answer = NONE

\* The pipeline variables while no pipeline runs.
ChunkOff ==
    /\ pc = "off"
    /\ input = NONE
    /\ attack = "none"
    /\ chunk_idx = 0
    /\ tick_idx = 0
    /\ hasher = << >>
    /\ boundary_states = << >>
    /\ guest = NONE
    /\ journals = << >>
    /\ fed = << >>
    /\ composer = [status |-> "off"]
    /\ output = << >>
    /\ streaming = NONE
    /\ monolithic = NONE

\* Instance storage before initialize: none of the four keys is set.
NoInstance ==
    [has |-> FALSE, admin |-> "", game_hub |-> "", verifier |-> "",
     image_id |-> << >>, live_until |-> 0]

\* No invocation yet.
NoCall ==
    [op |-> "none", session_id |-> 0, seal |-> << >>, journal |-> << >>,
     result |-> "none", trace |-> << >>]

\* The contract variables of a freshly deployed contract.
ContractOff ==
    /\ instance = NoInstance
    /\ matches = << >>
    /\ hub_log = << >>
    /\ last = NoCall
    /\ calls = 0

FpInput(buttons, aim_x, aim_y) == [buttons |-> buttons, aim_x |-> aim_x, aim_y |-> aim_y]

\* Input shorthands used by the scenarios.
InIdle == FpInput(0, 0, 0)
InRight == FpInput(BTN_RIGHT, 1, 0)
InLeft == FpInput(BTN_LEFT, -1, 0)
InRightJump == FpInput(BTN_RIGHT + BTN_JUMP, 1, 0)
InLeftJump == FpInput(BTN_LEFT + BTN_JUMP, -1, 0)
InJump == FpInput(BTN_JUMP, 0, 0)
InShoot == FpInput(BTN_SHOOT, 1, 0)
InShootUp == FpInput(BTN_SHOOT, 0, -1)
InShootDown == FpInput(BTN_SHOOT, 0, 1)

\* A scenario is a sequence of segments: n ticks, each tick's input pair drawn
\* from the set ins.
Seg(n, ins) == [n |-> n, ins |-> ins]

RECURSIVE ScriptLen(_)
ScriptLen(script) == IF script = << >> THEN 0 ELSE Head(script).n + ScriptLen(Tail(script))

RECURSIVE ScriptInputs(_, _)
ScriptInputs(script, t) ==
    IF script = << >> THEN {}
    ELSE IF t < Head(script).n THEN Head(script).ins
    ELSE ScriptInputs(Tail(script), t - Head(script).n)

\* Bounds of the exploration.
MaxTaunt == 3
ShakeWindow == 7
\* Ticks of idle input offered to a match nobody plays.
IdleTicks == 2000

InPressLeft == FpInput(BTN_LEFT, 0, 0)
InPressRight == FpInput(BTN_RIGHT, 0, 0)

\* Player 1 walks in and lands on player 0's head (stomp begins at tick 98);
\* player 0 has picked up the rocket launcher on its way.
DuelBase ==
    << Seg(60, {<< InRight, InLeft >>}), Seg(1, {<< InRight, InLeftJump >>}),
       Seg(19, {<< InRight, InLeft >>}), Seg(18, {<< InIdle, InLeft >>}) >>

ScenarioNames ==
    {"rocket", "shotgun", "duel_shoot", "duel_shake", "duel_kill", "zone_stomp", "time_up",
     "idle", "time_up_tie", "time_up_p1", "pickup_both", "platform_pistol",
     "wall_slide", "zone_at_time_up"}

Script(name) ==
    CASE name = "rocket" ->
           << Seg(80, {<< InRight, InIdle >>}), Seg(300, {<< InShoot, InIdle >>}) >>
      [] name = "shotgun" ->
           << Seg(80, {<< InRight, InLeft >>}), Seg(300, {<< InIdle, InIdle >>}),
              Seg(200, {<< InShoot, InIdle >>}) >>
      [] name = "duel_shoot" -> DuelBase \o << Seg(120, {<< InShootUp, InIdle >>}) >>
      [] name = "duel_shake" ->
           DuelBase \o << Seg(ShakeWindow, {<< InPressLeft, InIdle >>,
                                            << InPressRight, InIdle >>}) >>
      [] name = "duel_kill" -> DuelBase \o << Seg(260, {<< InIdle, InIdle >>}) >>
      [] name = "zone_stomp" ->
           << Seg(1400, {<< InIdle, InIdle >>}), Seg(153, {<< InRight, InIdle >>}),
              Seg(1, {<< InRightJump, InIdle >>}), Seg(14, {<< InRight, InIdle >>}),
              Seg(200, {<< InIdle, InIdle >>}) >>
      [] name = "idle" -> << Seg(IdleTicks, {<< InIdle, InIdle >>}) >>
      [] name = "pickup_both" ->
           << Seg(80, {<< InRight, InLeft >>}), Seg(10, {<< InIdle, InLeft >>}),
              Seg(290, {<< InIdle, InIdle >>}) >>
      [] name = "platform_pistol" ->
           << Seg(16, {<< InLeft, InIdle >>}), Seg(14, {<< InJump, InIdle >>}),
              Seg(24, {<< InRightJump, InIdle >>}), Seg(200, {<< InShootUp, InIdle >>}),
              Seg(110, {<< InIdle, InIdle >>}), Seg(20, {<< InShoot, InIdle >>}) >>
      [] name = "wall_slide" ->
           << Seg(40, {<< InPressLeft, InIdle >>}),
              Seg(1, {<< FpInput(BTN_LEFT + BTN_JUMP, 0, 0), InIdle >>}),
              Seg(60, {<< InPressLeft, InIdle >>}) >>
      [] name = "zone_at_time_up" ->
           << Seg(2, {<< InPressRight, InLeft >>}), Seg(58, {<< InIdle, InLeft >>}),
              Seg(1830, {<< InIdle, InIdle >>}) >>
      [] name = "time_up_tie" ->
           << Seg(70, {<< InRight, InLeft >>}), Seg(10, {<< InIdle, InLeft >>}),
              Seg(1720, {<< InIdle, InIdle >>}) >>
      [] name = "time_up_p1" ->
           << Seg(60, {<< InRight, InLeft >>}), Seg(20, {<< InIdle, InLeft >>}),
              Seg(1720, {<< InIdle, InIdle >>}) >>
      [] OTHER ->
           << Seg(80, {<< InRight, InLeft >>}), Seg(1720, {<< InIdle, InIdle >>}) >>

GameSeeds == {42, 43}

\* Inputs tried once the match is over (the winner may still move).
TauntInputs ==
    {<< InIdle, InIdle >>, << InRight, InIdle >>, << InLeftJump, InRight >>,
     << InShoot, InLeftJump >>}

InputPair(inp) == [i \in 0..1 |-> inp[i + 1]]

InitGame ==
    /\ scenario \in ScenarioNames
    /\ \E seed \in GameSeeds : state = create_initial_state(SeedWord(seed), arena_map)
    /\ prev = state
    /\ taunts = 0
    /\ ChunkOff
    /\ ContractOff
    /\ PureOff

\* step_mut on the normal path (match running, no linger).
TickNormal ==
    /\ ~state.match_over
    /\ state.death_linger_timer = 0
    /\ \E inp \in ScriptInputs(Script(scenario), state.tick) :
          state' = step_mut(state, InputPair(inp), arena_map)
    /\ prev' = state
    /\ UNCHANGED << scenario, taunts, chunkVars, contractVars, pureVars >>

\* step_mut through the death-linger gate.
TickLinger ==
    /\ ~state.match_over
    /\ state.death_linger_timer > 0
    /\ \E inp \in ScriptInputs(Script(scenario), state.tick) :
          state' = step_mut(state, InputPair(inp), arena_map)
    /\ prev' = state
    /\ UNCHANGED << scenario, taunts, chunkVars, contractVars, pureVars >>

\* step_mut through the match_over gate.
TickMatchOver ==
    /\ state.match_over
    /\ taunts < MaxTaunt
    /\ \E inp \in TauntInputs :
          state' = step_mut(state, InputPair(inp), arena_map)
    /\ prev' = state
    /\ taunts' = taunts + 1
    /\ UNCHANGED << scenario, chunkVars, contractVars, pureVars >>

NextGame == TickNormal \/ TickLinger \/ TickMatchOver

SpecGame == InitGame /\ [][NextGame]_gameVars

(* ------------------------------------------------------------------ *)
(* Properties of the tick transition                                    *)
(* ------------------------------------------------------------------ *)
\* C8: once match_over has latched, every later tick, whatever the inputs,
\* leaves both scores, both players' lives, proj_count and winner unchanged,
\* and match_over stays true.
C8_MatchOverFreezes ==
    [][state.match_over =>
          /\ state'.match_over
          /\ state'.score = state.score
          /\ \A i \in 0..1 : state'.players[i].lives = state.players[i].lives
          /\ state'.proj_count = state.proj_count
          /\ state'.winner = state.winner]_gameVars

\* C8 witness: a tick was stepped after the latch and moved a player.
C8_Witness ==
    /\ prev.match_over
    /\ state.match_over
    /\ state.tick = prev.tick + 1
    /\ state.players # prev.players

\* C9: proj_count <= 24 and every slot from proj_count on holds the empty
\* sentinel, in every reachable state.
C9_UnusedSlotsEmpty ==
    /\ state.proj_count <= MAX_PROJECTILES
    /\ \A k \in 0..(MAX_PROJECTILES - 1) :
          k >= state.proj_count => state.projectiles[k] = EMPTY_PROJECTILE

\* C10: the stomp relation is symmetric in every reachable state: for the two
\* players A and B, either A rides B and B records A as its rider, or both
\* fields are cleared.
C10_StompSymmetric ==
    \A a \in 0..1 :
        LET A == state.players[a]
            B == state.players[1 - a]
        IN  \/ A.stomping_on = B.id /\ B.stomped_by = A.id
            \/ A.stomping_on = -1 /\ B.stomped_by = -1

\* C10 witness: a stomp on player 0 has just been shaken off.
C10_Witness ==
    /\ prev.players[0].stomped_by = prev.players[1].id
    /\ prev.players[1].stomping_on = prev.players[0].id
    /\ state.players[0].stomped_by = -1
    /\ state.players[0].stomp_cooldown = STOMP_COOLDOWN_TICKS
    /\ IsAlive(state.players[0])
    /\ IsAlive(state.players[1])

(* ------------------------------------------------------------------ *)
(* Canonical codec and hashes                                           *)
(* ------------------------------------------------------------------ *)
\* SHA-256 as a collision-free digest: the digest is the tagged message. A
\* message is held run-length encoded over six-byte groups, << group, count >>,
\* which is a canonical form of the byte string (only the last group may be
\* shorter than six bytes).
MergeRuns(a, b) ==
    IF a = << >> THEN b
    ELSE IF b = << >> THEN a
    ELSE IF a[Len(a)][1] = b[1][1]
         THEN SubSeq(a, 1, Len(a) - 1)
              \o << << b[1][1], a[Len(a)][2] + b[1][2] >> >> \o Tail(b)
         ELSE a \o b

RECURSIVE RunLength(_)
RunLength(bytes) ==
    IF bytes = << >> THEN << >>
    ELSE IF Len(bytes) <= 6 THEN << << bytes, 1 >> >>
    ELSE LET Split(mid) ==
                 MergeRuns(RunLength(SubSeq(bytes, 1, mid)),
                           RunLength(SubSeq(bytes, mid + 1, Len(bytes))))
         IN  Split(6 * ((Len(bytes) \div 6 + 1) \div 2))

\* Sha256::update on a hasher that has been fed whole six-byte groups so far.
HasherUpdate(h, bytes) == MergeRuns(h, RunLength(bytes))

\* Sha256::finalize. The composer's hasher is fed whole digests and holds
\* them as a sequence.
HasherFinalize(h) == [sha256 |-> h]

Sha256(bytes) == HasherFinalize(HasherUpdate(<< >>, bytes))

BoolAsU8(v) == IF v THEN 1 ELSE 0

\* u32::from_le_bytes, for values below 2^31.
U32FromLE(b) == b[1] + 256 * b[2] + 65536 * b[3] + 16777216 * b[4]

\* One player's fields in encode_state order.
EncodePlayer(p) ==
    LE4(p.id) \o LE4(p.x) \o LE4(p.y) \o LE4(p.vx) \o LE4(p.vy) \o LE4(p.facing)
    \o LE4(p.health) \o LE4(p.lives) \o LE4(p.shoot_cooldown)
    \o << BoolAsU8(p.grounded) >> \o LE4(p.state_flags) \o LE4(p.respawn_timer)
    \o << I8AsU8(p.weapon) >> \o LE4(p.ammo) \o LE4(p.jumps_left)
    \o << BoolAsU8(p.wall_sliding) >> \o LE4(p.wall_dir) \o LE4(p.stomped_by)
    \o LE4(p.stomping_on) \o LE4(p.stomp_shake_progress)
    \o LE4(p.stomp_last_shake_dir) \o LE4(p.stomp_auto_run_dir)
    \o LE4(p.stomp_auto_run_timer) \o LE4(p.stomp_cooldown)

\* Projectile slots i .. proj_count-1 in encode_state order.
RECURSIVE EncodeProjectiles(_, _)
EncodeProjectiles(s, i) ==
    IF i >= s.proj_count THEN << >>
    ELSE LET pj == s.projectiles[i]
         IN  LE4(pj.id) \o LE4(pj.owner_id) \o LE4(pj.x) \o LE4(pj.y) \o LE4(pj.vx)
             \o LE4(pj.vy) \o LE4(pj.lifetime) \o << I8AsU8(pj.weapon) >>
             \o EncodeProjectiles(s, i + 1)

\* Pickup slots i .. pickup_count-1 in encode_state order.
RECURSIVE EncodePickups(_, _)
EncodePickups(s, i) ==
    IF i >= s.pickup_count THEN << >>
    ELSE LET wp == s.weapon_pickups[i]
         IN  LE4(wp.id) \o LE4(wp.x) \o LE4(wp.y) \o << I8AsU8(wp.weapon) >>
             \o LE4(wp.respawn_timer) \o EncodePickups(s, i + 1)

\* The encoding of the format before the three config fields were appended.
EncodeStateNoCfg(s) ==
    LE4(s.tick) \o EncodePlayer(s.players[0]) \o EncodePlayer(s.players[1])
    \o << s.proj_count >> \o EncodeProjectiles(s, 0)
    \o << s.pickup_count >> \o EncodePickups(s, 0)
    \o s.rng_state \o LE4(s.score[0]) \o LE4(s.score[1]) \o LE4(s.next_proj_id)
    \o LE4(s.arena_left) \o LE4(s.arena_right) \o << BoolAsU8(s.match_over) >>
    \o LE4(s.winner) \o LE4(s.death_linger_timer)
    \o << s.prev_buttons[0], s.prev_buttons[1] >>

encode_state(s) ==
    LE4(s.tick) \o EncodePlayer(s.players[0]) \o EncodePlayer(s.players[1])
    \o << s.proj_count >> \o EncodeProjectiles(s, 0)
    \o << s.pickup_count >> \o EncodePickups(s, 0)
    \o s.rng_state \o LE4(s.score[0]) \o LE4(s.score[1]) \o LE4(s.next_proj_id)
    \o LE4(s.arena_left) \o LE4(s.arena_right) \o << BoolAsU8(s.match_over) >>
    \o LE4(s.winner) \o LE4(s.death_linger_timer)
    \o << s.prev_buttons[0], s.prev_buttons[1] >>
    \o LE4(s.cfg_initial_lives) \o LE4(s.cfg_match_duration) \o LE4(s.cfg_sudden_death)

\* r32 / ru32 at 0-based offset o.
R32(b, o) == I32FromLE(SubSeq(b, o + 1, o + 4))
RU32(b, o) == U32FromLE(SubSeq(b, o + 1, o + 4))

\* A player read with its horizontal velocity left out.
DecodePlayerAtRest(b, o) ==
    [id |-> R32(b, o), x |-> R32(b, o + 4), y |-> R32(b, o + 8),
     vx |-> 0, vy |-> R32(b, o + 16), facing |-> R32(b, o + 20),
     health |-> R32(b, o + 24), lives |-> R32(b, o + 28),
     shoot_cooldown |-> R32(b, o + 32),
     grounded |-> b[o + 37] # 0,
     state_flags |-> RU32(b, o + 37), respawn_timer |-> R32(b, o + 41),
     weapon |-> U8AsI8(b[o + 46]),
     ammo |-> R32(b, o + 46), jumps_left |-> R32(b, o + 50),
     wall_sliding |-> b[o + 55] # 0,
     wall_dir |-> R32(b, o + 55), stomped_by |-> R32(b, o + 59),
     stomping_on |-> R32(b, o + 63), stomp_shake_progress |-> R32(b, o + 67),
     stomp_last_shake_dir |-> R32(b, o + 71), stomp_auto_run_dir |-> R32(b, o + 75),
     stomp_auto_run_timer |-> R32(b, o + 79), stomp_cooldown |-> R32(b, o + 83)]

\* One player read from 0-based offset o (87 bytes).
DecodePlayer(b, o) ==
    [id |-> R32(b, o), x |-> R32(b, o + 4), y |-> R32(b, o + 8),
     vx |-> R32(b, o + 12), vy |-> R32(b, o + 16), facing |-> R32(b, o + 20),
     health |-> R32(b, o + 24), lives |-> R32(b, o + 28),
     shoot_cooldown |-> R32(b, o + 32),
     grounded |-> b[o + 37] # 0,
     state_flags |-> RU32(b, o + 37), respawn_timer |-> R32(b, o + 41),
     weapon |-> U8AsI8(b[o + 46]),
     ammo |-> R32(b, o + 46), jumps_left |-> R32(b, o + 50),
     wall_sliding |-> b[o + 55] # 0,
     wall_dir |-> R32(b, o + 55), stomped_by |-> R32(b, o + 59),
     stomping_on |-> R32(b, o + 63), stomp_shake_progress |-> R32(b, o + 67),
     stomp_last_shake_dir |-> R32(b, o + 71), stomp_auto_run_dir |-> R32(b, o + 75),
     stomp_auto_run_timer |-> R32(b, o + 79), stomp_cooldown |-> R32(b, o + 83)]

\* One projectile read from 0-based offset o (29 bytes).
DecodeProjectile(b, o) ==
    [id |-> R32(b, o), owner_id |-> R32(b, o + 4), x |-> R32(b, o + 8),
     y |-> R32(b, o + 12), vx |-> R32(b, o + 16), vy |-> R32(b, o + 20),
     lifetime |-> R32(b, o + 24), weapon |-> U8AsI8(b[o + 29])]

\* One pickup read from 0-based offset o (17 bytes).
DecodePickup(b, o) ==
    [id |-> R32(b, o), x |-> R32(b, o + 4), y |-> R32(b, o + 8),
     weapon |-> U8AsI8(b[o + 13]), respawn_timer |-> R32(b, o + 13)]

\* The fields after the pickups, read from 0-based offset o; the three config
\* fields default when the buffer ends before them.
DecodeTail(b, o) ==
    LET has1 == o + 35 + 4 <= Len(b)
        has2 == has1 /\ o + 39 + 4 <= Len(b)
        has3 == has2 /\ o + 43 + 4 <= Len(b)
    IN  [rng_state |-> SubSeq(b, o + 1, o + 4),
         score |-> [i \in 0..1 |-> RU32(b, o + 4 + 4 * i)],
         next_proj_id |-> R32(b, o + 12),
         arena_left |-> R32(b, o + 16),
         arena_right |-> R32(b, o + 20),
         match_over |-> b[o + 25] # 0,
         winner |-> R32(b, o + 25),
         death_linger_timer |-> R32(b, o + 29),
         prev_buttons |-> [i \in 0..1 |-> b[o + 34 + i]],
         cfg_initial_lives |-> IF has1 THEN R32(b, o + 35) ELSE INITIAL_LIVES,
         cfg_match_duration |->
             IF has2 THEN R32(b, o + 39) ELSE MATCH_DURATION_TICKS,
         cfg_sudden_death |-> IF has3 THEN R32(b, o + 43) ELSE SUDDEN_DEATH_START_TICK]

decode_state(b) ==
    LET proj_count == b[179]
        pickup_off == 179 + 29 * proj_count
        pickup_count == b[pickup_off + 1]
        tail == DecodeTail(b, pickup_off + 1 + 17 * pickup_count)
    IN  [tick |-> R32(b, 0),
         players |-> [i \in 0..1 |-> DecodePlayer(b, 4 + 87 * i)],
         projectiles |->
             [i \in 0..(MAX_PROJECTILES - 1) |->
                 IF i < proj_count THEN DecodeProjectile(b, 179 + 29 * i)
                 ELSE EMPTY_PROJECTILE],
         proj_count |-> proj_count,
         weapon_pickups |->
             [i \in 0..(MAX_WEAPON_PICKUPS - 1) |->
                 IF i < pickup_count THEN DecodePickup(b, pickup_off + 1 + 17 * i)
                 ELSE EMPTY_PICKUP],
         pickup_count |-> pickup_count,
         rng_state |-> tail.rng_state,
         score |-> tail.score,
         next_proj_id |-> tail.next_proj_id,
         arena_left |-> tail.arena_left,
         arena_right |-> tail.arena_right,
         match_over |-> tail.match_over,
         winner |-> tail.winner,
         death_linger_timer |-> tail.death_linger_timer,
         prev_buttons |-> tail.prev_buttons,
         cfg_initial_lives |-> tail.cfg_initial_lives,
         cfg_match_duration |-> tail.cfg_match_duration,
         cfg_sudden_death |-> tail.cfg_sudden_death]

\* hash_state feeds the fields to the hasher one by one; the digest is over
\* the concatenation of everything fed.
hash_state(s) ==
    LET Player(p) ==
            LE4(p.id) \o LE4(p.x) \o LE4(p.y) \o LE4(p.vx) \o LE4(p.vy)
            \o LE4(p.facing) \o LE4(p.health) \o LE4(p.lives)
            \o LE4(p.shoot_cooldown) \o << BoolAsU8(p.grounded) >>
            \o LE4(p.state_flags) \o LE4(p.respawn_timer) \o << I8AsU8(p.weapon) >>
            \o LE4(p.ammo) \o LE4(p.jumps_left) \o << BoolAsU8(p.wall_sliding) >>
            \o LE4(p.wall_dir) \o LE4(p.stomped_by) \o LE4(p.stomping_on)
            \o LE4(p.stomp_shake_progress) \o LE4(p.stomp_last_shake_dir)
            \o LE4(p.stomp_auto_run_dir) \o LE4(p.stomp_auto_run_timer)
            \o LE4(p.stomp_cooldown)
        RECURSIVE Projectiles(_)
        Projectiles(i) ==
            IF i >= s.proj_count THEN << >>
            ELSE LE4(s.projectiles[i].id) \o LE4(s.projectiles[i].owner_id)
                 \o LE4(s.projectiles[i].x) \o LE4(s.projectiles[i].y)
                 \o LE4(s.projectiles[i].vx) \o LE4(s.projectiles[i].vy)
                 \o LE4(s.projectiles[i].lifetime)
                 \o << I8AsU8(s.projectiles[i].weapon) >> \o Projectiles(i + 1)
        RECURSIVE Pickups(_)
        Pickups(i) ==
            IF i >= s.pickup_count THEN << >>
            ELSE LE4(s.weapon_pickups[i].id) \o LE4(s.weapon_pickups[i].x)
                 \o LE4(s.weapon_pickups[i].y)
                 \o << I8AsU8(s.weapon_pickups[i].weapon) >>
                 \o LE4(s.weapon_pickups[i].respawn_timer) \o Pickups(i + 1)
    IN  Sha256(LE4(s.tick) \o Player(s.players[0]) \o Player(s.players[1])
               \o << s.proj_count >> \o Projectiles(0)
               \o << s.pickup_count >> \o Pickups(0)
               \o s.rng_state \o LE4(s.score[0]) \o LE4(s.score[1])
               \o LE4(s.next_proj_id) \o LE4(s.arena_left) \o LE4(s.arena_right)
               \o << BoolAsU8(s.match_over) >> \o LE4(s.winner)
               \o LE4(s.death_linger_timer)
               \o << s.prev_buttons[0], s.prev_buttons[1] >>
               \o LE4(s.cfg_initial_lives) \o LE4(s.cfg_match_duration)
               \o LE4(s.cfg_sudden_death))

\* The six wire bytes of one tick: buttons, aim_x as u8, aim_y as u8, twice.
TickBytes(tick) ==
    << tick[0].buttons, I8AsU8(tick[0].aim_x), I8AsU8(tick[0].aim_y),
       tick[1].buttons, I8AsU8(tick[1].aim_x), I8AsU8(tick[1].aim_y) >>

\* The two FpInputs parsed from six wire bytes.
ParseTick(tick_bytes) ==
    [i \in 0..1 |->
        FpInput(tick_bytes[3 * i + 1], U8AsI8(tick_bytes[3 * i + 2]),
                U8AsI8(tick_bytes[3 * i + 3]))]

\* Tick i of the submitted transcript: the scenario's script, then taunting.
TranscriptTick(name, i) ==
    IF i < ScriptLen(Script(name))
    THEN InputPair(CHOOSE inp \in ScriptInputs(Script(name), i) : TRUE)
    ELSE InputPair(<< InLeft, InIdle >>)

\* Bytes from .. to-1 (0-based) of the buffer encode_chunk_inputs builds for
\* the ticks from tick `start` on.
ChunkInputSlice(name, start, from, to) ==
    LET Byte(k) == TickBytes(TranscriptTick(name, start + k \div 6))[(k % 6) + 1]
    IN  [k \in 1..(to - from) |-> Byte(from + k - 1)]

\* The wire bytes of ticks start .. start+count-1 of the transcript.
encode_chunk_inputs(name, start, count) == ChunkInputSlice(name, start, 0, 6 * count)

\* hash_transcript over the first n ticks of the transcript.
hash_transcript(name, n) ==
    LET Byte(k) == TickBytes(TranscriptTick(name, (k - 1) \div 6))[((k - 1) % 6) + 1]
    IN  Sha256([k \in 1..(6 * n) |-> Byte(k)])

\* seed is the u32 seed as its little-endian bytes.
hash_seed(seed) == Sha256(seed)

\* ChunkProof as journal words. Each digest stands for its eight words; every
\* other word is given by its four little-endian bytes.
to_words(proof) ==
    << proof.state_hash_in, proof.state_hash_out, proof.input_hash,
       LE4(proof.tick_start), LE4(proof.tick_end),
       LE4(proof.scores[0]), LE4(proof.scores[1]),
       LE4(BoolAsU8(proof.match_over)), LE4(proof.winner) >>

from_journal_bytes(b) ==
    [state_hash_in |-> b[1], state_hash_out |-> b[2], input_hash |-> b[3],
     tick_start |-> U32FromLE(b[4]), tick_end |-> U32FromLE(b[5]),
     scores |-> [i \in 0..1 |-> U32FromLE(b[6 + i])],
     match_over |-> U32FromLE(b[8]) # 0,
     winner |-> I32FromLE(b[9])]

\* ProverOutput as journal words, digests standing for their eight words.
to_journal_words(out) ==
    << LE4(out.winner), LE4(out.scores[0]), LE4(out.scores[1]),
       out.transcript_hash, out.seed_commit >>

(* ------------------------------------------------------------------ *)
(* The proving pipeline: host run_chunked, chunk guest, composer, and   *)
(* the streaming runner over the same transcript                        *)
(* ------------------------------------------------------------------ *)
CHUNK_SIZE == 360

\* Longest transcript explored, in ticks.
MaxTicks == 1080

NumChunks(total_ticks) == (total_ticks + CHUNK_SIZE - 1) \div CHUNK_SIZE
EndTick(idx, total_ticks) == Min(idx * CHUNK_SIZE + CHUNK_SIZE, total_ticks)
\* A chunk that takes every tick left of the transcript.
TicksInChunkUncapped(idx, total_ticks) == total_ticks - idx * CHUNK_SIZE
TicksInChunk(idx, total_ticks) == Min(CHUNK_SIZE, total_ticks - idx * CHUNK_SIZE)

\* Bytes from .. to-1 (0-based) of the buffer encode_raw_input builds:
\* [seed: 4 LE] [tick_count: 4 LE] [tick x 6 bytes].
RawInputSlice(seed, name, n, from, to) ==
    LET Byte(k) ==
            IF k < 4 THEN seed[k + 1]
            ELSE IF k < 8 THEN LE4(n)[k - 4 + 1]
            ELSE TickBytes(TranscriptTick(name, (k - 8) \div 6))[((k - 8) % 6) + 1]
    IN  [k \in 1..(to - from) |-> Byte(from + k - 1)]

encode_raw_input(seed, name, n) == RawInputSlice(seed, name, n, 0, 8 + 6 * n)

\* The transcripts explored: a scenario, a seed, a length, and what the
\* composer is fed.
Job(script, seed, ticks, att) ==
    [script |-> script, seed |-> seed, ticks |-> ticks, attack |-> att]

ChunkJobs ==
    {Job("rocket", 42, MaxTicks, "none"),
     Job("rocket", 42, 2 * CHUNK_SIZE, "none"),
     Job("rocket", 42, 2 * CHUNK_SIZE, "forge"),
     Job("rocket", 42, 2 * CHUNK_SIZE, "swap"),
     Job("rocket", 42, 2 * CHUNK_SIZE, "skip_first"),
     Job("rocket", 42, 2 * CHUNK_SIZE, "truncate"),
     Job("rocket", 42, 150, "none"),
     Job("shotgun", 43, MaxTicks, "none"),
     Job("duel_kill", 42, CHUNK_SIZE + 1, "none"),
     Job("time_up", 42, CHUNK_SIZE + 40, "none"),
     Job("time_up", 43, 0, "none")}

\* What an adversarial host feeds the composer instead of the journals.
Tampered(js, att) ==
    CASE att = "forge" -> [js EXCEPT ![Len(js)] = [@ EXCEPT ![6] = LE4(9)]]
      [] att = "swap" -> [js EXCEPT ![1] = js[2], ![2] = js[1]]
      [] att = "skip_first" -> Tail(js)
      [] att = "truncate" -> SubSeq(js, 1, Len(js) - 1)
      [] OTHER -> js

InitChunk ==
    /\ \E job \in ChunkJobs :
          /\ scenario = job.script
          /\ input = [seed |-> SeedWord(job.seed), ticks |-> job.ticks]
          /\ attack = job.attack
    /\ pc = "host"
    /\ state = create_initial_state(input.seed, arena_map)
    /\ prev = state
    /\ taunts = 0
    /\ chunk_idx = 0
    /\ tick_idx = 0
    /\ hasher = << >>
    /\ boundary_states = << state >>
    /\ guest = NONE
    /\ journals = << >>
    /\ fed = << >>
    /\ composer = [status |-> "off"]
    /\ output = << >>
    /\ streaming = NONE
    /\ monolithic = NONE
    /\ ContractOff
    /\ PureOff

\* Host step 1, one iteration of the inner loop: step, break on match_over.
HostTick ==
    /\ pc = "host"
    /\ chunk_idx < NumChunks(input.ticks)
    /\ tick_idx < EndTick(chunk_idx, input.ticks)
    /\ state' = step_mut(state, TranscriptTick(scenario, tick_idx), arena_map)
    /\ prev' = state
    /\ tick_idx' = IF state'.match_over THEN EndTick(chunk_idx, input.ticks)
                   ELSE tick_idx + 1
    /\ UNCHANGED << scenario, taunts, pc, input, attack, chunk_idx, hasher,
                    boundary_states, guest, journals, fed, composer, output,
                    streaming, monolithic, contractVars, pureVars >>

\* Host step 1 after the inner loop: push the boundary state; when the match
\* is over, push the same state for every remaining chunk and leave the loop.
HostChunkEnd ==
    /\ pc = "host"
    /\ chunk_idx < NumChunks(input.ticks)
    /\ tick_idx = EndTick(chunk_idx, input.ticks)
    /\ IF state.match_over
       THEN /\ boundary_states' =
                 boundary_states
                 \o [k \in 1..(NumChunks(input.ticks) - chunk_idx) |-> state]
            /\ chunk_idx' = NumChunks(input.ticks)
       ELSE /\ boundary_states' = Append(boundary_states, state)
            /\ chunk_idx' = chunk_idx + 1
    /\ UNCHANGED << gameVars, pc, input, attack, tick_idx, hasher, guest, journals,
                    fed, composer, output, streaming, monolithic, contractVars, pureVars >>

\* Host step 2 begins: prove each chunk.
HostProve ==
    /\ pc = "host"
    /\ chunk_idx = NumChunks(input.ticks)
    /\ pc' = "prove"
    /\ chunk_idx' = 0
    /\ UNCHANGED << gameVars, input, attack, tick_idx, hasher, boundary_states,
                    guest, journals, fed, composer, output, streaming,
                    monolithic, contractVars, pureVars >>

\* The host encodes boundary state chunk_idx and the chunk's ticks; the chunk
\* guest reads them, decodes the state and hashes it (guest steps 1-4).
GuestStart ==
    /\ pc = "prove"
    /\ chunk_idx < NumChunks(input.ticks)
    /\ state' = decode_state(encode_state(boundary_states[chunk_idx + 1]))
    /\ prev' = state
    /\ guest' = [start_tick |-> chunk_idx * CHUNK_SIZE,
                 tick_count |-> TicksInChunk(chunk_idx, input.ticks),
                 state_hash_in |-> hash_state(state'),
                 tick_start |-> state'.tick]
    /\ hasher' = << >>
    /\ tick_idx' = 0
    /\ pc' = "guest"
    /\ UNCHANGED << scenario, taunts, input, attack, chunk_idx, boundary_states,
                    journals, fed, composer, output, streaming, monolithic, contractVars, pureVars >>

\* The guest's input_bytes[from..to]: the host wrote encode_chunk_inputs of
\* the chunk's ticks.
GuestInput(from, to) == ChunkInputSlice(scenario, guest.start_tick, from, to)

\* The bytes after the tick at offset off, fed when the match ends early.
GuestHashRemaining(h, off, input_byte_len) ==
    IF off + 6 < input_byte_len
    THEN HasherUpdate(h, GuestInput(off + 6, input_byte_len))
    ELSE h

\* Chunk guest step 5, one iteration: hash the tick bytes, step, and on
\* match_over hash the remaining bytes and break.
GuestTick ==
    /\ pc = "guest"
    /\ tick_idx < guest.tick_count
    /\ LET Step(tick_bytes) ==
               /\ state' = step_mut(state, ParseTick(tick_bytes), arena_map)
               /\ hasher' = IF state'.match_over
                            THEN GuestHashRemaining(HasherUpdate(hasher, tick_bytes),
                                                    tick_idx * 6, guest.tick_count * 6)
                            ELSE HasherUpdate(hasher, tick_bytes)
       IN  Step(GuestInput(tick_idx * 6, tick_idx * 6 + 6))
    /\ prev' = state
    /\ tick_idx' = IF state'.match_over THEN guest.tick_count ELSE tick_idx + 1
    /\ UNCHANGED << scenario, taunts, pc, input, attack, chunk_idx, boundary_states,
                    guest, journals, fed, composer, output, streaming,
                    monolithic, contractVars, pureVars >>

\* Chunk guest step 6: hash the output state and commit the ChunkProof.
GuestCommit ==
    /\ pc = "guest"
    /\ tick_idx = guest.tick_count
    /\ journals' =
          Append(journals,
                 to_words([state_hash_in |-> guest.state_hash_in,
                           state_hash_out |-> hash_state(state),
                           input_hash |-> HasherFinalize(hasher),
                           tick_start |-> guest.tick_start,
                           tick_end |-> state.tick,
                           scores |-> state.score,
                           match_over |-> state.match_over,
                           winner |-> state.winner]))
    /\ chunk_idx' = chunk_idx + 1
    /\ pc' = "prove"
    /\ UNCHANGED << gameVars, input, attack, tick_idx, hasher, boundary_states,
                    guest, fed, composer, output, streaming, monolithic, contractVars, pureVars >>

\* Host step 3 and composer steps 1-3: the composer reads the seed and the
\* journals it is fed, and computes the expected first hash.
ComposerStart ==
    /\ pc = "prove"
    /\ chunk_idx = NumChunks(input.ticks)
    /\ fed' = Tampered(journals, attack)
    /\ composer' =
          [status |-> "running",
           prev_hash |-> hash_state(create_initial_state(input.seed, arena_map)),
           transcript_hasher |-> << >>,
           final_scores |-> [i \in 0..1 |-> 0],
           final_winner |-> -1]
    /\ chunk_idx' = 0
    /\ pc' = "composer"
    /\ UNCHANGED << gameVars, input, attack, tick_idx, hasher, boundary_states,
                    guest, journals, output, streaming, monolithic, contractVars, pureVars >>

\* env::verify: the journal is one a chunk guest receipt vouches for.
Verified(journal, receipts) == \E k \in 1..Len(receipts) : receipts[k] = journal

\* A composer without the chain assertion.
ChainUnchecked(chunk, prev_hash) == TRUE

\* The composer's chain assertion.
ChainOk(chunk, prev_hash) == chunk.state_hash_in = prev_hash

\* Composer step 4, one chunk: verify, decode, check the chain, accumulate.
\* A failed verification or a broken chain aborts the composer.
ComposerChunk ==
    /\ pc = "composer"
    /\ composer.status = "running"
    /\ chunk_idx < Len(fed)
    /\ LET Chain(chunk) ==
               IF ChainOk(chunk, composer.prev_hash)
               THEN /\ composer' =
                         [composer EXCEPT
                            !.prev_hash = chunk.state_hash_out,
                            !.transcript_hasher = Append(@, chunk.input_hash),
                            !.final_scores = chunk.scores,
                            !.final_winner = chunk.winner]
                    /\ chunk_idx' = chunk_idx + 1
               ELSE /\ composer' = [composer EXCEPT !.status = "chain_broken"]
                    /\ chunk_idx' = chunk_idx
       IN  IF Verified(fed[chunk_idx + 1], journals)
           THEN Chain(from_journal_bytes(fed[chunk_idx + 1]))
           ELSE /\ composer' = [composer EXCEPT !.status = "verify_failed"]
                /\ chunk_idx' = chunk_idx
    /\ UNCHANGED << gameVars, pc, input, attack, tick_idx, hasher, boundary_states,
                    guest, journals, fed, output, streaming, monolithic, contractVars, pureVars >>

\* Composer steps 5-6: commit the final journal.
ComposerCommit ==
    /\ pc = "composer"
    /\ composer.status = "running"
    /\ chunk_idx = Len(fed)
    /\ output' =
          to_journal_words([winner |-> composer.final_winner,
                            scores |-> composer.final_scores,
                            transcript_hash |-> HasherFinalize(composer.transcript_hasher),
                            seed_commit |-> hash_seed(input.seed)])
    /\ composer' = [composer EXCEPT !.status = "committed"]
    /\ UNCHANGED << gameVars, pc, input, attack, chunk_idx, tick_idx, hasher,
                    boundary_states, guest, journals, fed, streaming,
                    monolithic, contractVars, pureVars >>

\* transcript[i] of decode_raw_input over the raw input the host encoded.
decode_raw_input(seed, name, n, i) ==
    ParseTick(RawInputSlice(seed, name, n, 8 + 6 * i, 8 + 6 * i + 6))

\* The three-step path begins: decode_raw_input reads the header, and the
\* initial state is built for the decoded seed.
MonoStart ==
    /\ pc = "composer"
    /\ composer.status # "running"
    /\ LET Read(header) ==
               /\ guest' = [seed |-> SubSeq(header, 1, 4),
                            tick_count |-> U32FromLE(SubSeq(header, 5, 8))]
               /\ state' = create_initial_state(SubSeq(header, 1, 4), arena_map)
       IN  Read(RawInputSlice(input.seed, scenario, input.ticks, 0, 8))
    /\ prev' = state
    /\ hasher' = << >>
    /\ tick_idx' = 0
    /\ pc' = "mono"
    /\ UNCHANGED << scenario, taunts, input, attack, chunk_idx, boundary_states,
                    journals, fed, composer, output, streaming, monolithic,
                    contractVars, pureVars >>

\* The three-step path, one iteration of the replay loop: step the decoded
\* tick, break on match_over.
MonoTick ==
    /\ pc = "mono"
    /\ tick_idx < guest.tick_count
    /\ state' = step_mut(state,
                         decode_raw_input(input.seed, scenario, input.ticks, tick_idx),
                         arena_map)
    /\ prev' = state
    /\ tick_idx' = IF state'.match_over THEN guest.tick_count ELSE tick_idx + 1
    /\ UNCHANGED << scenario, taunts, pc, input, attack, chunk_idx, hasher,
                    boundary_states, guest, journals, fed, composer, output,
                    streaming, monolithic, contractVars, pureVars >>

\* A three-step path that hashes only the ticks it played.
MonoEndHashesPlayed ==
    /\ pc = "mono"
    /\ tick_idx = guest.tick_count
    /\ LET Byte(k) ==
               TickBytes(decode_raw_input(input.seed, scenario, input.ticks,
                                          (k - 1) \div 6))[((k - 1) % 6) + 1]
       IN  monolithic' =
               [state |-> state,
                transcript_hash |-> Sha256([k \in 1..(6 * state.tick) |-> Byte(k)]),
                seed_commit |-> hash_seed(guest.seed)]
    /\ pc' = "mono_done"
    /\ UNCHANGED << gameVars, input, attack, chunk_idx, tick_idx, hasher,
                    boundary_states, guest, journals, fed, composer, output,
                    streaming, contractVars, pureVars >>

\* The three-step path after the loop: hash_transcript over the decoded
\* transcript, re-serialised tick by tick, and hash_seed.
MonoEnd ==
    /\ pc = "mono"
    /\ tick_idx = guest.tick_count
    /\ LET Byte(k) ==
               TickBytes(decode_raw_input(input.seed, scenario, input.ticks,
                                          (k - 1) \div 6))[((k - 1) % 6) + 1]
       IN  monolithic' =
               [state |-> state,
                transcript_hash |-> Sha256([k \in 1..(6 * guest.tick_count) |-> Byte(k)]),
                seed_commit |-> hash_seed(guest.seed)]
    /\ pc' = "mono_done"
    /\ UNCHANGED << gameVars, input, attack, chunk_idx, tick_idx, hasher,
                    boundary_states, guest, journals, fed, composer, output,
                    streaming, contractVars, pureVars >>

\* run_streaming reads the header of the raw input and builds the state.
StreamStart ==
    /\ pc = "mono_done"
    /\ LET Read(header) ==
               /\ guest' = [seed |-> SubSeq(header, 1, 4),
                            tick_count |-> U32FromLE(SubSeq(header, 5, 8))]
               /\ state' = create_initial_state(SubSeq(header, 1, 4), arena_map)
       IN  Read(RawInputSlice(input.seed, scenario, input.ticks, 0, 8))
    /\ prev' = state
    /\ hasher' = << >>
    /\ tick_idx' = 0
    /\ pc' = "stream"
    /\ UNCHANGED << scenario, taunts, input, attack, chunk_idx, boundary_states,
                    journals, fed, composer, output, streaming, monolithic, contractVars, pureVars >>

\* run_streaming that stops hashing when the match ends.
StreamHashNothing(h, offset, tick_count) == h

\* run_streaming's data[from..to]: the raw input the host encoded.
StreamData(from, to) == RawInputSlice(input.seed, scenario, input.ticks, from, to)

\* The ticks from offset to the end of the data, fed six bytes at a time.
StreamHashRemaining(h, offset, tick_count) ==
    IF offset < 8 + tick_count * 6
    THEN HasherUpdate(h, StreamData(offset, 8 + tick_count * 6))
    ELSE h

\* run_streaming, one iteration: parse, hash the tick bytes, step, and on
\* match_over hash the remaining ticks and break.
StreamTick ==
    /\ pc = "stream"
    /\ tick_idx < guest.tick_count
    /\ LET Step(offset, tick_bytes) ==
               /\ state' = step_mut(state, ParseTick(tick_bytes), arena_map)
               /\ hasher' = IF state'.match_over
                            THEN StreamHashRemaining(HasherUpdate(hasher, tick_bytes),
                                                     offset + 6, guest.tick_count)
                            ELSE HasherUpdate(hasher, tick_bytes)
       IN  Step(8 + 6 * tick_idx, StreamData(8 + 6 * tick_idx, 8 + 6 * tick_idx + 6))
    /\ prev' = state
    /\ tick_idx' = IF state'.match_over THEN guest.tick_count ELSE tick_idx + 1
    /\ UNCHANGED << scenario, taunts, pc, input, attack, chunk_idx, boundary_states,
                    guest, journals, fed, composer, output, streaming,
                    monolithic, contractVars, pureVars >>

\* run_streaming after the loop: finalize the hash, commit to the seed.
StreamEnd ==
    /\ pc = "stream"
    /\ tick_idx = guest.tick_count
    /\ streaming' = [state |-> state,
                     transcript_hash |-> HasherFinalize(hasher),
                     seed_commit |-> hash_seed(guest.seed)]
    /\ pc' = "done"
    /\ UNCHANGED << gameVars, input, attack, chunk_idx, tick_idx, hasher,
                    boundary_states, guest, journals, fed, composer, output,
                    monolithic, contractVars, pureVars >>

NextChunk ==
    \/ HostTick
    \/ HostChunkEnd
    \/ HostProve
    \/ GuestStart
    \/ GuestTick
    \/ GuestCommit
    \/ ComposerStart
    \/ ComposerChunk
    \/ ComposerCommit
    \/ MonoStart
    \/ MonoTick
    \/ MonoEnd
    \/ StreamStart
    \/ StreamTick
    \/ StreamEnd

SpecChunk == InitChunk /\ [][NextChunk]_vars

(* ------------------------------------------------------------------ *)
(* Properties of the proving pipeline                                   *)
(* ------------------------------------------------------------------ *)
\* C1: chunk equivalence. When the host's own journals are fed to the
\* composer and both flows have run, the composer has committed a journal
\* whose winner and scores equal those of the streaming runner's final state.
C1_ChunkedEqualsStreaming ==
    (pc = "done" /\ attack = "none") =>
        /\ composer.status = "committed"
        /\ output # << >>
        /\ I32FromLE(output[1]) = streaming.state.winner
        /\ \A i \in 0..1 : U32FromLE(output[2 + i]) = streaming.state.score[i]

\* C2: hash-chain continuity. Whenever the host stands between two chunk
\* proofs, of the journals committed so far chunk 0's state_hash_in is the
\* hash of the initial state for the seed, every chunk's state_hash_in is the
\* hash of the boundary state the host handed it, and every chunk's
\* state_hash_out equals the next chunk's state_hash_in.
C2_HashChainContinuous ==
    pc = "prove" =>
    \A i \in 1..Len(journals) :
        LET chunk == from_journal_bytes(journals[i])
        IN  /\ chunk.state_hash_in = hash_state(boundary_states[i])
            /\ i = 1 =>
                  chunk.state_hash_in =
                      hash_state(create_initial_state(input.seed, arena_map))
            /\ i > 1 =>
                  from_journal_bytes(journals[i - 1]).state_hash_out
                      = chunk.state_hash_in

\* Journal i fed to the composer fails verification or breaks the chain.
FedFails(i) ==
    \/ ~Verified(fed[i], journals)
    \/ from_journal_bytes(fed[i]).state_hash_in #
          (IF i = 1 THEN hash_state(create_initial_state(input.seed, arena_map))
           ELSE from_journal_bytes(fed[i - 1]).state_hash_out)

\* C3: the composer commits a journal only if every journal it was fed passed
\* verification and the chain holds from the initial state hash on; at the
\* first journal that fails either check it aborts, and it commits nothing.
C3_ComposerCommitsOnlyVerifiedChain ==
    /\ output # << >> =>
          /\ composer.status = "committed"
          /\ \A i \in 1..Len(fed) : ~FedFails(i)
    /\ composer.status \in {"verify_failed", "chain_broken"} =>
          /\ output = << >>
          /\ FedFails(chunk_idx + 1)
          /\ \A i \in 1..chunk_idx : ~FedFails(i)
    /\ composer.status \in {"off", "running"} => output = << >>

\* C3 witness: a journal was committed over a chain of at least two chunks.
C3_Witness ==
    /\ output # << >>
    /\ composer.status = "committed"
    /\ Len(fed) >= 2

\* C4: the transcript hash of run_streaming is hash_transcript of the whole
\* submitted transcript, and the input_hash of the journal a chunk guest has
\* just committed is the hash of all of that chunk's tick bytes, wherever the
\* match ended.
C4_HashCoversWholeTranscript ==
    /\ streaming # NONE =>
          streaming.transcript_hash = hash_transcript(scenario, input.ticks)
    /\ (pc = "prove" /\ chunk_idx > 0) =>
          from_journal_bytes(journals[chunk_idx]).input_hash =
              Sha256(encode_chunk_inputs(scenario, (chunk_idx - 1) * CHUNK_SIZE,
                                         TicksInChunk(chunk_idx - 1, input.ticks)))

\* C4 witness: run_streaming finished a match that ended before the
\* transcript did.
C4_Witness ==
    /\ streaming # NONE
    /\ streaming.state.match_over
    /\ streaming.state.tick < input.ticks

(* ------------------------------------------------------------------ *)
(* The settlement contract                                              *)
(* ------------------------------------------------------------------ *)
MATCH_TTL_LEDGERS == 518400
JOURNAL_SIZE == 76

\* Longest sequence of invocations explored. One invocation is one ledger,
\* so no entry outlives its time to live within a sequence.
MaxCalls == 4

\* An invocation's environment: the storage and the hub as the invocation
\* sees them, the ledger number, what the collaborators will answer, and the
\* effects performed so far in program order.
Env(verifier_ok, hub_ok, authorized) ==
    [instance |-> instance, matches |-> matches, hub_log |-> hub_log,
     ledger |-> calls, verifier_ok |-> verifier_ok, hub_ok |-> hub_ok,
     authorized |-> authorized, trace |-> << >>, result |-> "running"]

\* One storage write or cross-contract call, appended to the trace.
Effect(env, call, args, ok) ==
    [env EXCEPT !.trace = Append(@, [call |-> call, args |-> args, ok |-> ok])]

\* return Err(kind) / a panic / return Ok(()).
Err(env, kind) == [env EXCEPT !.result = kind]
Panic(env) == [env EXCEPT !.result = "panic"]
Ok(env) == [env EXCEPT !.result = "ok"]

\* storage().instance().extend_ttl(MATCH_TTL_LEDGERS, MATCH_TTL_LEDGERS)
InstanceExtendTtl(env) ==
    Effect([env EXCEPT !.instance.live_until = Max(@, env.ledger + MATCH_TTL_LEDGERS)],
           "instance.extend_ttl", << >>, TRUE)

\* storage().temporary().set(&key, &match_data), then extend_ttl on the key.
SetMatch(env, session_id, match_data) ==
    Effect(Effect([env EXCEPT !.matches =
                       [k \in DOMAIN @ \cup {session_id} |->
                           IF k = session_id
                           THEN [match_data EXCEPT
                                   !.live_until = env.ledger + MATCH_TTL_LEDGERS]
                           ELSE @[k]]],
                  "set_match", << session_id >>, TRUE),
           "match.extend_ttl", << session_id >>, TRUE)

decode_winner(journal) ==
    I32FromLE(<< journal[1], journal[2], journal[3], journal[4] >>)

extract_seed_commit(journal) == [i \in 1..32 |-> journal[44 + i]]

initialize(env, admin, game_hub, verifier, image_id) ==
    IF env.instance.has THEN Err(env, "AlreadyInitialized")
    ELSE Ok(Effect([env EXCEPT !.instance =
                        [has |-> TRUE, admin |-> admin, game_hub |-> game_hub,
                         verifier |-> verifier, image_id |-> image_id,
                         live_until |-> @.live_until]],
                   "set_instance", << >>, TRUE))

set_image_id(env, image_id) ==
    IF ~env.instance.has THEN Err(env, "NotInitialized")
    ELSE IF ~env.authorized
         THEN Panic(Effect(env, "require_auth", << env.instance.admin >>, FALSE))
    ELSE Ok(Effect([env EXCEPT !.instance.image_id = image_id],
                   "set_image_id", << >>, TRUE))

start_match(env, session_id, player1, player2, seed_commit) ==
    IF ~env.instance.has THEN Err(env, "NotInitialized")
    ELSE IF ~env.authorized
         THEN Panic(Effect(env, "require_auth", << env.instance.admin >>, FALSE))
    ELSE IF session_id \in DOMAIN env.matches THEN Err(env, "MatchAlreadyExists")
    ELSE IF ~env.hub_ok
         THEN Panic(Effect(env, "start_game", << session_id >>, FALSE))
    ELSE LET Store(started) ==
                 Ok(InstanceExtendTtl(
                      SetMatch(started, session_id,
                               [player1 |-> player1, player2 |-> player2,
                                seed_commit |-> seed_commit, settled |-> FALSE,
                                live_until |-> 0])))
         IN  Store(Effect([env EXCEPT !.hub_log =
                               Append(@, [op |-> "start_game",
                                          session_id |-> session_id,
                                          args |-> << "chickenz", player1, player2,
                                                      3, 3 >>])],
                          "start_game", << session_id >>, TRUE))

\* settle_match steps 8-10: tell the hub, then mark the record settled.
SettleFinish(env, session_id, player1_won) ==
    IF ~env.instance.has THEN Err(env, "NotInitialized")
    ELSE IF ~env.hub_ok
         THEN Panic(Effect(env, "end_game", << session_id, player1_won >>, FALSE))
    ELSE LET Store(ended) ==
                 Ok(SetMatch(ended, session_id,
                             [ended.matches[session_id] EXCEPT !.settled = TRUE]))
         IN  Store(Effect([env EXCEPT !.hub_log =
                               Append(@, [op |-> "end_game",
                                          session_id |-> session_id,
                                          args |-> << player1_won >>])],
                          "end_game", << session_id, player1_won >>, TRUE))

\* A settle_match that compares the seed commitment before the winner.
SettleDecodeSeedFirst(env, session_id, journal) ==
    IF extract_seed_commit(journal) # env.matches[session_id].seed_commit
    THEN Err(env, "SeedMismatch")
    ELSE IF decode_winner(journal) # 0 /\ decode_winner(journal) # 1
    THEN Err(env, "InvalidWinner")
    ELSE SettleFinish(env, session_id, decode_winner(journal) = 0)

\* A settle_match that trusts whatever the journal says.
SettleDecodeUnchecked(env, session_id, journal) ==
    SettleFinish(env, session_id, decode_winner(journal) = 0)

\* settle_match steps 6-7: the winner and the seed commitment of the journal.
SettleDecode(env, session_id, journal) ==
    IF decode_winner(journal) # 0 /\ decode_winner(journal) # 1
    THEN Err(env, "InvalidWinner")
    ELSE IF extract_seed_commit(journal) # env.matches[session_id].seed_commit
    THEN Err(env, "SeedMismatch")
    ELSE SettleFinish(env, session_id, decode_winner(journal) = 0)

\* A settle_match that goes on whatever the verifier answers.
SettleVerifyUnchecked(env, session_id, seal, journal) ==
    SettleDecode(Effect(env, "verify",
                        << seal, env.instance.image_id, Sha256(journal) >>,
                        env.verifier_ok),
                 session_id, journal)

\* settle_match steps 3-5: the verifier is called with the seal, the stored
\* image id and the digest of the journal; it panics when it rejects.
SettleVerify(env, session_id, seal, journal) ==
    IF ~env.instance.has THEN Err(env, "NotInitialized")
    ELSE LET Verify(called) ==
                 IF env.verifier_ok THEN SettleDecode(called, session_id, journal)
                 ELSE Panic(called)
         IN  Verify(Effect(env, "verify",
                           << seal, env.instance.image_id, Sha256(journal) >>,
                           env.verifier_ok))

\* A settle_match that does not look at the settled flag.
settle_match_resettle(env, session_id, seal, journal) ==
    IF session_id \notin DOMAIN env.matches THEN Err(env, "MatchNotFound")
    ELSE IF Len(journal) # JOURNAL_SIZE THEN Err(env, "InvalidJournal")
    ELSE SettleVerify(InstanceExtendTtl(env), session_id, seal, journal)

settle_match(env, session_id, seal, journal) ==
    IF session_id \notin DOMAIN env.matches THEN Err(env, "MatchNotFound")
    ELSE IF env.matches[session_id].settled THEN Err(env, "MatchAlreadySettled")
    ELSE IF Len(journal) # JOURNAL_SIZE THEN Err(env, "InvalidJournal")
    ELSE SettleVerify(InstanceExtendTtl(env), session_id, seal, journal)

get_match(env, session_id) ==
    IF session_id \notin DOMAIN env.matches THEN Err(env, "MatchNotFound")
    ELSE Ok(env)

\* The arguments explored.
Fill32(byte) == [i \in 1..32 |-> byte]
ImageIds == {Fill32(170), Fill32(171)}
SeedCommits == {Fill32(204), Fill32(205)}
Sessions == {1, 2}
Seals == {<< 1, 2, 3 >>}

\* A journal in the fixed word layout: winner, scores, transcript hash, seed
\* commitment.
JournalBytes(winner, seed_commit) ==
    LE4(winner) \o LE4(1) \o LE4(0) \o Fill32(187) \o seed_commit

Journals ==
    {JournalBytes(w, c) : w \in {0, 1, -1}, c \in SeedCommits}
    \cup {SubSeq(JournalBytes(0, Fill32(204)), 1, JOURNAL_SIZE - 1),
          JournalBytes(0, Fill32(204)) \o << 0 >>}

\* One invocation as a transaction: it is recorded, and what it wrote and
\* what the hub accepted stay only when it returned Ok.
Invoke(op, session_id, seal, journal, env) ==
    /\ calls' = calls + 1
    /\ last' = [op |-> op, session_id |-> session_id, seal |-> seal,
                journal |-> journal, result |-> env.result, trace |-> env.trace]
    /\ IF env.result = "ok"
       THEN /\ instance' = env.instance
            /\ matches' = env.matches
            /\ hub_log' = env.hub_log
       ELSE UNCHANGED << instance, matches, hub_log >>
    /\ UNCHANGED << gameVars, chunkVars, pureVars >>

InitContract ==
    /\ scenario = "time_up"
    /\ state = create_initial_state(SeedWord(42), arena_map)
    /\ prev = state
    /\ taunts = 0
    /\ ChunkOff
    /\ ContractOff
    /\ PureOff

Initialize ==
    /\ calls < MaxCalls
    /\ \E image_id \in ImageIds :
          Invoke("initialize", 0, << >>, << >>,
                 initialize(Env(TRUE, TRUE, TRUE), "admin", "hub", "verifier",
                            image_id))

SetImageId ==
    /\ calls < MaxCalls
    /\ \E image_id \in ImageIds, authorized \in BOOLEAN :
          Invoke("set_image_id", 0, << >>, << >>,
                 set_image_id(Env(TRUE, TRUE, authorized), image_id))

StartMatch ==
    /\ calls < MaxCalls
    /\ \E session_id \in Sessions, seed_commit \in SeedCommits,
          authorized \in BOOLEAN, hub_ok \in BOOLEAN :
          Invoke("start_match", session_id, << >>, << >>,
                 start_match(Env(TRUE, hub_ok, authorized), session_id,
                             "player1", "player2", seed_commit))

SettleMatch ==
    /\ calls < MaxCalls
    /\ \E session_id \in Sessions, seal \in Seals, journal \in Journals,
          verifier_ok \in BOOLEAN, hub_ok \in BOOLEAN :
          Invoke("settle_match", session_id, seal, journal,
                 settle_match(Env(verifier_ok, hub_ok, TRUE), session_id, seal,
                              journal))

GetMatch ==
    /\ calls < MaxCalls
    /\ \E session_id \in Sessions :
          Invoke("get_match", session_id, << >>, << >>,
                 get_match(Env(TRUE, TRUE, TRUE), session_id))

NextContract ==
    \/ Initialize
    \/ SetImageId
    \/ StartMatch
    \/ SettleMatch
    \/ GetMatch

SpecContract == InitContract /\ [][NextContract]_vars

(* ------------------------------------------------------------------ *)
(* Properties of the settlement contract                                *)
(* ------------------------------------------------------------------ *)
\* The step is an invocation of settle_match.
SettleStep == calls' = calls + 1 /\ last'.op = "settle_match"

\* Position k of the trace is a call of the given kind.
IsCall(trace, k, call) == trace[k].call = call

\* C5: in settle_match the hub's end_game call and the write that marks the
\* record settled happen only after the verifier call has returned; and
\* whenever settle_match fails, for whatever reason, the stored match records
\* are unchanged, the session's record (if any) is as unsettled as it was,
\* and the hub has accepted no end_game.
C5_SettleMutatesOnlyAfterVerify ==
    [][SettleStep =>
          /\ \A k \in 1..Len(last'.trace) :
                (IsCall(last'.trace, k, "end_game")
                 \/ IsCall(last'.trace, k, "set_match")) =>
                    \E j \in 1..(k - 1) :
                        IsCall(last'.trace, j, "verify") /\ last'.trace[j].ok
          /\ last'.result # "ok" =>
                /\ matches' = matches
                /\ hub_log' = hub_log
                /\ (last'.result # "MatchAlreadySettled"
                    /\ last'.session_id \in DOMAIN matches') =>
                       ~matches'[last'.session_id].settled]_vars

\* C5 witness: the verifier rejected the settlement of a started match, and
\* the record is still unsettled.
C5_Witness ==
    /\ last.op = "settle_match"
    /\ last.result = "panic"
    /\ \E k \in 1..Len(last.trace) :
          IsCall(last.trace, k, "verify") /\ ~last.trace[k].ok
    /\ last.session_id \in DOMAIN matches
    /\ ~matches[last.session_id].settled

\* Session s goes from not settled to settled in this step.
BecomesSettled(s) ==
    /\ s \in DOMAIN matches'
    /\ matches'[s].settled
    /\ s \in DOMAIN matches => ~matches[s].settled

\* C6: whenever a match record becomes settled, it was started, the step is a
\* settle_match of that session whose journal has exactly 76 bytes, the
\* verifier was called with the seal, the stored image id and the SHA-256 of
\* that journal and accepted, the journal's last 32 bytes are the seed
\* commitment recorded by start_match, its winner is 0 or 1, and the hub was
\* told player1_won exactly when the winner is 0.
C6_SettledOnlyByValidJournal ==
    [][\A s \in Sessions :
          BecomesSettled(s) =>
             /\ s \in DOMAIN matches
             /\ SettleStep
             /\ last'.session_id = s
             /\ Len(last'.journal) = 76
             /\ \E k \in 1..Len(last'.trace) :
                   /\ IsCall(last'.trace, k, "verify")
                   /\ last'.trace[k].ok
                   /\ last'.trace[k].args =
                         << last'.seal, instance.image_id, Sha256(last'.journal) >>
             /\ SubSeq(last'.journal, 45, 76) = matches[s].seed_commit
             /\ I32FromLE(SubSeq(last'.journal, 1, 4)) \in {0, 1}
             /\ hub_log' =
                   Append(hub_log,
                          [op |-> "end_game", session_id |-> s,
                           args |-> << I32FromLE(SubSeq(last'.journal, 1, 4)) = 0 >>])]_vars

\* C6 witness: a match was settled by a journal whose winner is player 2.
C6_Witness ==
    /\ last.op = "settle_match"
    /\ last.result = "ok"
    /\ matches[last.session_id].settled
    /\ decode_winner(last.journal) = 1
    /\ hub_log[Len(hub_log)] =
          [op |-> "end_game", session_id |-> last.session_id, args |-> << FALSE >>]

\* The end_game effects the hub accepted for session s.
EndGames(log, s) ==
    {k \in 1..Len(log) : log[k].op = "end_game" /\ log[k].session_id = s}

\* C7: a match is settled at most once. settle_match on a settled session
\* returns MatchAlreadySettled without calling the verifier or the hub and
\* changes nothing, settle_match on a session that was never started returns
\* MatchNotFound, and the hub accepts at most one end_game per session id.
C7_SettledAtMostOnce ==
    [][/\ SettleStep =>
             /\ last'.session_id \notin DOMAIN matches =>
                   last'.result = "MatchNotFound"
             /\ (last'.session_id \in DOMAIN matches
                 /\ matches[last'.session_id].settled) =>
                   /\ last'.result = "MatchAlreadySettled"
                   /\ \A k \in 1..Len(last'.trace) :
                         /\ ~IsCall(last'.trace, k, "verify")
                         /\ ~IsCall(last'.trace, k, "end_game")
                   /\ matches' = matches
                   /\ hub_log' = hub_log
       /\ \A s \in Sessions : Cardinality(EndGames(hub_log', s)) <= 1]_vars

\* C7 witness: a second settlement of a settled match was turned down.
C7_Witness ==
    /\ last.op = "settle_match"
    /\ last.result = "MatchAlreadySettled"
    /\ matches[last.session_id].settled
    /\ Cardinality(EndGames(hub_log, last.session_id)) = 1

(* ------------------------------------------------------------------ *)
(* Further properties of the simulation                                 *)
(* ------------------------------------------------------------------ *)
\* C11: in every reachable state, match_over implies death_linger_timer = 0:
\* the linger countdown and the ended state are never both active.
C11_MatchOverMeansNoLinger == state.match_over => state.death_linger_timer = 0

\* C11 witness: the linger countdown has just expired and latched match_over.
C11_Witness ==
    /\ state.match_over
    /\ ~prev.match_over
    /\ prev.death_linger_timer = 1
    /\ state.tick = prev.tick + 1

\* C12: in every reachable state 0 <= arena_left <= arena_right <= map.width,
\* also at and after full sudden-death closure.
C12_ArenaBoundsOrdered ==
    /\ 0 <= state.arena_left
    /\ state.arena_left <= state.arena_right
    /\ state.arena_right <= arena_map.width

\* C12 witness: the zone has been fully closed for a while and the match is
\* still running.
C12_Witness ==
    /\ state.tick > state.cfg_sudden_death + SUDDEN_DEATH_DURATION
    /\ ~state.match_over
    /\ state.death_linger_timer = 0
    /\ state.arena_left > 0
    /\ state.arena_left = prev.arena_left

\* C13: in every reachable state the bytes hash_state feeds to the hasher are
\* the bytes of encode_state, so hash_state(state) = SHA-256(encode_state(state)).
C13_HashStateIsHashOfEncoding == hash_state(state) = Sha256(encode_state(state))

\* C13 witness: a state well into a run, with projectiles in flight and
\* pickups on the map.
C13_Witness ==
    /\ state.tick >= 100
    /\ state.proj_count >= 1
    /\ state.pickup_count >= 1
    /\ hash_state(state) # hash_state(prev)

\* C14: decode_state(encode_state(s)) = s for every reachable state s, the
\* whole record compared: every projectile slot and every pickup slot.
C14_DecodeEncodeRoundTrip == decode_state(encode_state(state)) = state

\* C15: when both have run over the same raw input, run_streaming and the
\* three-step path (decode_raw_input, step_mut per tick up to the first
\* match_over, hash_transcript of the full transcript, hash_seed) end with the
\* same state, the same transcript hash and the same seed commitment.
C15_StreamingEqualsThreeStep ==
    pc = "done" =>
        /\ streaming.state = monolithic.state
        /\ streaming.transcript_hash = monolithic.transcript_hash
        /\ streaming.seed_commit = monolithic.seed_commit

\* C15 witness: both paths have run a transcript whose match ended early.
C15_Witness ==
    /\ pc = "done"
    /\ monolithic.state.match_over
    /\ monolithic.state.tick < input.ticks
    /\ monolithic.state.score # [i \in 0..1 |-> 0]

(* ------------------------------------------------------------------ *)
(* Conversions applied on their own: the monolithic guest's journal     *)
(* ------------------------------------------------------------------ *)
\* ProverOutput::to_journal_words with the hashes as their 32 bytes: a hash
\* that moves into the wrong words.
ProverOutput_to_journal_words_swapped(o) ==
    << LE4(o.winner), LE4(o.scores[0]), LE4(o.scores[1]) >>
    \o [i \in 1..8 |-> SubSeq(o.seed_commit, 4 * i - 3, 4 * i)]
    \o [i \in 1..8 |-> SubSeq(o.transcript_hash, 4 * i - 3, 4 * i)]

\* ProverOutput::to_journal_words with the hashes as their 32 bytes. A u32
\* word is held as its four little-endian bytes, so u32::from_le_bytes of
\* four hash bytes is those four bytes.
ProverOutput_to_journal_words(o) ==
    << LE4(o.winner), LE4(o.scores[0]), LE4(o.scores[1]) >>
    \o [i \in 1..8 |-> SubSeq(o.transcript_hash, 4 * i - 3, 4 * i)]
    \o [i \in 1..8 |-> SubSeq(o.seed_commit, 4 * i - 3, 4 * i)]

\* env::commit_slice of u32 words: the journal holds each word little-endian,
\* in order.
commit_slice(words) ==
    [k \in 1..(4 * Len(words)) |-> words[((k - 1) \div 4) + 1][((k - 1) % 4) + 1]]

\* ProverOutput::from_journal_bytes.
ProverOutput_from_journal_bytes(b) ==
    LET u32_at(off) == U32FromLE(SubSeq(b, off + 1, off + 4))
        hash_at(start) == SubSeq(b, start + 1, start + 32)
    IN  [winner |-> I32FromLE(SubSeq(b, 1, 4)),
         scores |-> [i \in 0..1 |-> u32_at(4 + 4 * i)],
         transcript_hash |-> hash_at(12),
         seed_commit |-> hash_at(44)]

\* The ProverOutputs explored: winners of either sign, scores that fill one,
\* two and three bytes, and hashes whose bytes all differ.
HashBytes(first) == [i \in 1..32 |-> (first + 7 * (i - 1)) % 256]
ProverOutputs ==
    [winner : {0, 1, -1, 2, -256, 65537},
     scores : [0..1 -> {0, 1, 255, 70000}],
     transcript_hash : {HashBytes(0), HashBytes(3), HashBytes(200)},
     seed_commit : {HashBytes(0), HashBytes(5), HashBytes(131)}]

\* The state step_mut holds when it reaches an elimination check in a tick that
\* left nobody standing: both players out of lives, health and ALIVE flag,
\* the linger not yet started, and the scores as they are at that point
\* (stomp kills of the tick counted, projectile kills not yet).
NobodyLeft(score) ==
    LET s0 == create_initial_state(SeedWord(42), arena_map)
    IN  [s0 EXCEPT !.tick = SUDDEN_DEATH_START_TICK + 5,
                   !.players = [i \in 0..1 |->
                                   [s0.players[i] EXCEPT !.lives = 0, !.health = 0,
                                                         !.state_flags = 0]],
                   !.score = score]

ScoresAtCheck == [0..1 -> 0..1]

\* Projectile counts at which a shot is tried: none in flight, some, and the
\* last slots before the capacity.
LoadedSlots == {0, 5, 12, 19, 20, 21, 22, 23, 24}

\* The state of a match about to run step 7 with k SMG rounds of player 1 in
\* flight (ids 0..k-1) and player 0 holding a weapon with its full ammo.
InFlight(s0, k) ==
    [s0 EXCEPT
       !.tick = 100,
       !.projectiles =
           [j \in DOMAIN s0.projectiles |->
               IF j < k
               THEN spawn_projectile(s0.players[1], -1, 0, j, WEAPON_SMG,
                                     fp_weapon_stats(WEAPON_SMG).speed)
               ELSE s0.projectiles[j]],
       !.proj_count = k,
       !.next_proj_id = k]

Armed(s0, weapon) ==
    [s0 EXCEPT !.players[0].weapon = weapon,
               !.players[0].ammo = fp_weapon_stats(weapon).ammo]

\* How far, in fixed-point units, a player may have entered a platform along
\* one axis after one tick of movement (up to 4 px sideways, 12 px downwards).
Depths == {1, 256, 768, 1024}
Corners == {"top_left", "top_right", "bottom_left", "bottom_right"}

\* Player 0 after the position update of move_and_collide_mut, moving
\* diagonally, dx deep into the side and dy deep into the face of the
\* platform that meet at the corner.
AtCorner(plat, corner, dx, dy) ==
    LET p0 == create_initial_state(SeedWord(42), arena_map).players[0]
        left == corner \in {"top_left", "bottom_left"}
        top == corner \in {"top_left", "top_right"}
    IN  [p0 EXCEPT
           !.x = IF left THEN plat.x - PLAYER_WIDTH + dx ELSE plat.x + plat.width - dx,
           !.y = IF top THEN plat.y - PLAYER_HEIGHT + dy ELSE plat.y + plat.height - dy,
           !.vx = IF left THEN PLAYER_SPEED ELSE -PLAYER_SPEED,
           !.vy = IF top THEN PLAYER_SPEED ELSE -PLAYER_SPEED,
           !.grounded = FALSE]

\* What player 0 may hold when it presses SHOOT, and how it may aim.
ShotWeapons == {WEAPON_SHOTGUN, WEAPON_PISTOL, WEAPON_NONE}
ShotInputs ==
    {InShoot, InShootUp, InShootDown, FpInput(BTN_SHOOT, 0, 0), FpInput(BTN_SHOOT, -1, 1)}

InitPure ==
    /\ scenario = "time_up"
    /\ state = create_initial_state(SeedWord(42), arena_map)
    /\ prev = state
    /\ taunts = 0
    /\ ChunkOff
    /\ ContractOff
    /\ \/ \E o \in ProverOutputs : probe = [kind |-> "journal", o |-> o]
       \/ \E score \in ScoresAtCheck :
             probe = [kind |-> "elimination", s |-> NobodyLeft(score)]
       \/ \E k \in LoadedSlots, weapon \in ShotWeapons, inp \in ShotInputs :
             probe = [kind |-> "shot",
                      s |-> Armed(InFlight(create_initial_state(SeedWord(42), arena_map), k),
                                  weapon),
                      input |-> inp]
       \/ \E i \in 1..5, corner \in Corners, dx \in Depths, dy \in Depths :
             probe = [kind |-> "collide",
                      plat |-> arena_map.platforms[i],
                      p |-> AtCorner(arena_map.platforms[i], corner, dx, dy)]
    /\ answer = NONE

\* The monolithic guest commits the journal of its ProverOutput.
CommitJournal ==
    /\ probe.kind = "journal"
    /\ answer = NONE
    /\ answer' = [journal |-> commit_slice(ProverOutput_to_journal_words(probe.o))]
    /\ UNCHANGED << gameVars, chunkVars, contractVars, probe >>

\* Each of the two elimination checks of step_mut, run on the same state.
Eliminate ==
    /\ probe.kind = "elimination"
    /\ answer = NONE
    /\ answer' = [after_deaths |-> CheckElimination(probe.s),
                  after_zone |-> CheckZoneElimination(probe.s)]
    /\ UNCHANGED << gameVars, chunkVars, contractVars, probe >>

\* Step 7 of step_mut for player 0.
FireShot ==
    /\ probe.kind = "shot"
    /\ answer = NONE
    /\ answer' = [after |-> Shoot(probe.s, 0, probe.input)]
    /\ UNCHANGED << gameVars, chunkVars, contractVars, probe >>

\* One iteration of the platform loop of move_and_collide_mut.
Collide ==
    /\ probe.kind = "collide"
    /\ answer = NONE
    /\ answer' = [after |-> CollidePlatform(probe.p, probe.plat)]
    /\ UNCHANGED << gameVars, chunkVars, contractVars, probe >>

NextPure ==
    \/ CommitJournal
    \/ Eliminate
    \/ FireShot
    \/ Collide

SpecPure == InitPure /\ [][NextPure]_vars

\* C16: the journal of a ProverOutput is 76 bytes (19 little-endian words);
\* from_journal_bytes gives the ProverOutput back, the contract's
\* decode_winner gives its winner and extract_seed_commit its seed_commit.
C16_JournalLayoutAgrees ==
    (probe.kind = "journal" /\ answer # NONE) =>
        /\ Len(ProverOutput_to_journal_words(probe.o)) = 19
        /\ Len(answer.journal) = JOURNAL_SIZE
        /\ ProverOutput_from_journal_bytes(answer.journal) = probe.o
        /\ decode_winner(answer.journal) = probe.o.winner
        /\ extract_seed_commit(answer.journal) = probe.o.seed_commit
        /\ extract_seed_commit(answer.journal) = SubSeq(answer.journal, 45, 76)

\* C16 witness: a committed journal with a negative winner and a seed
\* commitment that differs from the transcript hash.
C16_Witness ==
    /\ probe.kind = "journal"
    /\ answer # NONE
    /\ probe.o.winner < 0
    /\ probe.o.scores[1] > 255
    /\ probe.o.seed_commit # probe.o.transcript_hash

\* C17: decode_state of encode_state(s) without its final 12 bytes is s with
\* the three cfg fields at their defaults, every other field equal to s.
C17_DecodeDefaultsMissingCfg ==
    LET Short(enc) == decode_state(SubSeq(enc, 1, Len(enc) - 12))
    IN  Short(encode_state(state)) =
            [state EXCEPT !.cfg_initial_lives = INITIAL_LIVES,
                          !.cfg_match_duration = MATCH_DURATION_TICKS,
                          !.cfg_sudden_death = SUDDEN_DEATH_START_TICK]

\* C18: with both players idle from the initial state, the match is over by
\* tick cfg_match_duration: match_over turns true at a tick no later than
\* that, and it turns true once (it never goes back to false).
C18_IdleMatchEndsByDuration ==
    scenario = "idle" =>
        /\ state.tick >= state.cfg_match_duration => state.match_over
        /\ (state.match_over /\ ~prev.match_over) =>
               state.tick <= state.cfg_match_duration
        /\ prev.match_over => state.match_over

\* C18 witness: the idle match of seed 43 has just ended, and later a step
\* was taken on the finished match.
C18_Witness ==
    /\ scenario = "idle"
    /\ state.rng_state = SeedWord(43)
    /\ state.match_over
    /\ prev.match_over
    /\ state.tick > prev.tick

\* What ends the idle match of seed 42: the linger that begins when the
\* closing zone takes a player's last health, and nothing else; the match
\* ends once.
IdleEndedByZone ==
    /\ (state.death_linger_timer = DEATH_LINGER_TICKS /\ prev.death_linger_timer = 0) =>
           /\ state.tick > state.cfg_sudden_death
           /\ state.proj_count = 0
           /\ \E i \in 0..1 :
                 /\ prev.players[i].health > 0
                 /\ state.players[i].health = 0
                 /\ \/ state.players[i].x + PLAYER_WIDTH \div 2 < state.arena_left
                    \/ state.players[i].x + PLAYER_WIDTH \div 2 > state.arena_right
    /\ (state.match_over /\ ~prev.match_over) => prev.death_linger_timer = 1
    /\ state.tick >= MATCH_DURATION_TICKS => state.match_over
    /\ prev.match_over => state.match_over

C20_BothChecksTiebreakByScore ==
    (probe.kind = "elimination" /\ answer # NONE) =>
        LET by_score == IF probe.s.score[0] >= probe.s.score[1] THEN 0 ELSE 1
        IN  /\ answer.after_deaths.death_linger_timer = DEATH_LINGER_TICKS
            /\ answer.after_zone.death_linger_timer = DEATH_LINGER_TICKS
            /\ answer.after_deaths.winner = by_score
            /\ answer.after_zone.winner = by_score

\* C21: a main-phase tick that ends with tick >= cfg_match_duration, the match
\* not over before it and no death linger running after its elimination
\* checks, latches match_over in that tick; the winner is the player with more
\* lives, else the one with more health, else player 0.
C21_TimeUpWinner ==
    (/\ ~prev.match_over
     /\ prev.death_linger_timer = 0
     /\ state.tick = prev.tick + 1
     /\ state.tick >= state.cfg_match_duration
     /\ state.death_linger_timer = 0) =>
        LET p0 == state.players[0]
            p1 == state.players[1]
        IN  /\ state.match_over
            /\ state.winner = IF p0.lives > p1.lives THEN 0
                              ELSE IF p1.lives > p0.lives THEN 1
                              ELSE IF p0.health > p1.health THEN 0
                              ELSE IF p1.health > p0.health THEN 1
                              ELSE 0

\* C21 witness: time-up with equal lives decided for player 1 by health.
C21_Witness ==
    /\ ~prev.match_over
    /\ prev.death_linger_timer = 0
    /\ state.tick = state.cfg_match_duration
    /\ state.match_over
    /\ state.players[0].lives = state.players[1].lives
    /\ state.players[1].health > state.players[0].health
    /\ state.winner = 1

\* A main-phase tick has just run: the state before it was neither over nor
\* in the death linger.
MainPhaseTick ==
    /\ ~prev.match_over
    /\ prev.death_linger_timer = 0
    /\ state.tick = prev.tick + 1

\* Player i stands on pickup pi at the pickup step of the tick that has just
\* run, the pickup being active then. Players are not moved after the pickup
\* step, and a pickup active at the step was active when the tick began.
OnActivePickup(i, pi) ==
    /\ pi < prev.pickup_count
    /\ prev.weapon_pickups[pi].respawn_timer = 0
    /\ player_overlaps_pickup(state.players[i], prev.weapon_pickups[pi])

\* Player i left the tick with pickup pi's weapon, full ammo and no cooldown,
\* and the pickup with its respawn timer set (and ticked once by step 15).
Equipped(i, pi) ==
    /\ state.players[i].weapon = prev.weapon_pickups[pi].weapon
    /\ state.players[i].ammo = fp_weapon_stats(prev.weapon_pickups[pi].weapon).ammo
    /\ state.players[i].shoot_cooldown = 0
    /\ state.weapon_pickups[pi].respawn_timer = WEAPON_PICKUP_RESPAWN_TICKS - 1

\* Both players end the tick alive and neither pressed SHOOT in it, so what
\* the pickup step gave them is what they hold at the end of the tick.
BothAliveNoShot ==
    \A i \in 0..1 : IsAlive(state.players[i]) /\ ~HasBit(state.prev_buttons[i], BTN_SHOOT)

\* C22 as stated: every alive player that overlaps an active pickup is
\* equipped with it, both players when both overlap the same pickup.
C22_EveryOverlappingPlayerEquipped ==
    (MainPhaseTick /\ BothAliveNoShot) =>
        \A pi \in 0..(MAX_WEAPON_PICKUPS - 1) : \A i \in 0..1 :
            OnActivePickup(i, pi) => Equipped(i, pi)

\* C22 amended: an active pickup equips the first alive player, in index
\* order, that overlaps it, and only that one: when both overlap the same
\* pickup, player 0 is equipped and player 1 keeps the weapon and ammo it had.
C22_FirstOverlappingPlayerEquipped ==
    (MainPhaseTick /\ BothAliveNoShot) =>
        \A pi \in 0..(MAX_WEAPON_PICKUPS - 1) :
            /\ OnActivePickup(0, pi) => Equipped(0, pi)
            /\ (OnActivePickup(1, pi) /\ ~OnActivePickup(0, pi)) => Equipped(1, pi)
            /\ (OnActivePickup(1, pi) /\ OnActivePickup(0, pi)) =>
                   /\ state.players[1].weapon = prev.players[1].weapon
                   /\ state.players[1].ammo = prev.players[1].ammo

\* C22 witness: both players stand on the same active pickup; player 0 leaves
\* the tick with its weapon and player 1 unarmed.
C22_Witness ==
    /\ MainPhaseTick
    /\ BothAliveNoShot
    /\ \E pi \in 0..(MAX_WEAPON_PICKUPS - 1) :
          /\ OnActivePickup(0, pi)
          /\ OnActivePickup(1, pi)
          /\ Equipped(0, pi)
          /\ state.players[0].weapon # prev.players[0].weapon
          /\ state.players[1].weapon = WEAPON_NONE

\* No projectile, no pickup, and no player holds a weapon or ammo.
ArenaCleared(s) ==
    /\ s.proj_count = 0
    /\ s.pickup_count = 0
    /\ \A i \in 0..1 : s.players[i].weapon = WEAPON_NONE /\ s.players[i].ammo = 0

\* The tick that has just run took the death linger to 0 and latched match_over.
LingerLatchTick ==
    /\ ~prev.match_over
    /\ prev.death_linger_timer > 0
    /\ state.tick = prev.tick + 1
    /\ state.death_linger_timer = 0

\* C23: at the tick where the death linger reaches 0 and match_over latches,
\* proj_count and pickup_count become 0 and every player's weapon becomes
\* none with ammo 0; every later tick leaves them so.
C23_LingerEndClearsArena ==
    /\ LingerLatchTick => (state.match_over /\ ArenaCleared(state))
    /\ (prev.match_over /\ state.tick = prev.tick + 1 /\ ArenaCleared(prev))
           => (state.match_over /\ ArenaCleared(state))

\* C23 witness: a match that the linger ended (only the linger end empties
\* the pickups) has been stepped twice or more since, the living player 0
\* pressing SHOOT in the last tick, and the arena is still cleared.
C23_Witness ==
    /\ state.match_over
    /\ prev.match_over
    /\ taunts >= 2
    /\ IsAlive(state.players[0])
    /\ HasBit(state.prev_buttons[0], BTN_SHOOT)
    /\ ArenaCleared(state)

\* The tick that has just run began with player 0 alive, unarmed and on
\* active pickup 0, and both players' inputs were idle.
IdleTickOnPickup0 ==
    /\ MainPhaseTick
    /\ IsAlive(prev.players[0])
    /\ prev.players[0].weapon = WEAPON_NONE
    /\ prev.pickup_count > 0
    /\ prev.weapon_pickups[0].respawn_timer = 0
    /\ player_overlaps_pickup(prev.players[0], prev.weapon_pickups[0])
    /\ \A i \in 0..1 : state.prev_buttons[i] = 0

\* C24 as stated: after that one tick player 0 holds a weapon with ammo and
\* pickup 0's respawn_timer equals WEAPON_PICKUP_RESPAWN_TICKS.
C24_PickupTimerFullAfterTick ==
    IdleTickOnPickup0 =>
        /\ state.players[0].weapon # WEAPON_NONE
        /\ state.players[0].ammo > 0
        /\ state.weapon_pickups[0].respawn_timer = WEAPON_PICKUP_RESPAWN_TICKS

\* C24 amended: after that one tick player 0 holds a weapon with ammo and
\* pickup 0's respawn_timer is WEAPON_PICKUP_RESPAWN_TICKS - 1: the pickup
\* step sets it and step 15 of the same tick counts it down once.
C24_PickupTimerTickedOnce ==
    IdleTickOnPickup0 =>
        /\ state.players[0].weapon # WEAPON_NONE
        /\ state.players[0].ammo > 0
        /\ state.weapon_pickups[0].respawn_timer = WEAPON_PICKUP_RESPAWN_TICKS - 1

\* C24 witness: player 0, unarmed on pickup 0 as it came back, has been
\* stepped one idle tick and holds the pickup's weapon.
C24_Witness ==
    /\ IdleTickOnPickup0
    /\ state.players[0].weapon = prev.weapon_pickups[0].weapon
    /\ state.players[0].ammo > 0
    /\ state.weapon_pickups[0].respawn_timer > 0

\* The inputs the last step_mut call may have been given.
SubmittedInputs ==
    IF prev.match_over THEN TauntInputs
    ELSE ScriptInputs(Script(scenario), prev.tick)

\* Player i was given a jump impulse in the tick that has just run: only a
\* jump takes a jump away.
Jumped(i) == state.players[i].jumps_left < prev.players[i].jumps_left

\* C25: a jump impulse is applied in a tick only if JUMP is set in that
\* tick's buttons and was clear in the buttons of the tick before, so JUMP
\* held across two ticks jumps once; and after every tick, whichever gate it
\* took, prev_buttons holds the buttons submitted in it.
C25_JumpEdgeTriggered ==
    (state.tick = prev.tick + 1) =>
        /\ state.prev_buttons \in {InputButtons(InputPair(inp)) : inp \in SubmittedInputs}
        /\ \A i \in 0..1 :
              Jumped(i) => /\ HasBit(state.prev_buttons[i], BTN_JUMP)
                           /\ ~HasBit(prev.prev_buttons[i], BTN_JUMP)

\* C25 witness: player 0 jumped in the tick before, holds JUMP in the tick
\* that has just run with a jump still left, and does not jump again.
C25_Witness ==
    /\ MainPhaseTick
    /\ HasBit(state.prev_buttons[0], BTN_JUMP)
    /\ HasBit(prev.prev_buttons[0], BTN_JUMP)
    /\ prev.players[0].jumps_left = MAX_JUMPS - 1
    /\ ~prev.players[0].grounded
    /\ state.players[0].jumps_left = prev.players[0].jumps_left

\* Player i fired in the tick that has just run: only a shot raises the
\* shoot cooldown (step 2 counts it down, a pickup sets it to 0).
Fired(i) == state.players[i].shoot_cooldown > prev.players[i].shoot_cooldown

\* Player i stood on no active pickup in the tick that has just run, so the
\* pickup step gave it neither weapon nor ammo.
OffPickups(i) == \A pi \in 0..(MAX_WEAPON_PICKUPS - 1) : ~OnActivePickup(i, pi)

\* C26: a shot takes exactly 1 from the shooter's ammo, a tick without a shot
\* takes none, and the shot that takes the ammo to 0 leaves the shooter's
\* weapon none at the end of that same tick (a shot that leaves ammo keeps
\* the weapon).
C26_AmmoPerShotAndDrop ==
    MainPhaseTick =>
        \A i \in 0..1 :
            OffPickups(i) =>
                IF Fired(i)
                THEN /\ prev.players[i].weapon # WEAPON_NONE
                     /\ state.players[i].ammo = prev.players[i].ammo - 1
                     /\ state.players[i].weapon =
                            IF state.players[i].ammo = 0 THEN WEAPON_NONE
                            ELSE prev.players[i].weapon
                ELSE /\ state.players[i].ammo = prev.players[i].ammo
                     /\ state.players[i].weapon = prev.players[i].weapon

\* C26 witness: player 0 has fired its last round and ends the tick unarmed.
C26_Witness ==
    /\ MainPhaseTick
    /\ OffPickups(0)
    /\ Fired(0)
    /\ prev.players[0].weapon # WEAPON_NONE
    /\ prev.players[0].ammo = 1
    /\ state.players[0].ammo = 0
    /\ state.players[0].weapon = WEAPON_NONE

\* What a shotgun shot of player 0 must have done to the projectiles: added
\* pellets of them, each of shotgun kind, owned by the shooter, with
\* consecutive ids from next_proj_id on, and left the others as they were.
PelletsAdded(before, after, pellets) ==
    /\ after.proj_count = before.proj_count + pellets
    /\ after.next_proj_id = before.next_proj_id + pellets
    /\ \A j \in 0..(pellets - 1) :
          /\ after.projectiles[before.proj_count + j].weapon = WEAPON_SHOTGUN
          /\ after.projectiles[before.proj_count + j].owner_id = before.players[0].id
          /\ after.projectiles[before.proj_count + j].id = before.next_proj_id + j
    /\ \A j \in 0..(before.proj_count - 1) : after.projectiles[j] = before.projectiles[j]

\* C27: a shotgun shot fired with at least 5 projectile slots free adds
\* exactly 5 projectiles of shotgun kind, owned by the shooter, with
\* consecutive ids, and advances next_proj_id by 5; with fewer slots free it
\* adds as many as fit, and proj_count never exceeds the 24 slots.
C27_ShotgunAddsFivePellets ==
    (probe.kind = "shot" /\ answer # NONE /\ probe.s.players[0].weapon = WEAPON_SHOTGUN) =>
        /\ PelletsAdded(probe.s, answer.after,
                        Min(fp_weapon_stats(WEAPON_SHOTGUN).pellets,
                            MAX_PROJECTILES - probe.s.proj_count))
        /\ fp_weapon_stats(WEAPON_SHOTGUN).pellets = 5
        /\ answer.after.proj_count <= MAX_PROJECTILES

\* C27 witness: a shotgun shot into 19 projectiles in flight has added 5.
C27_Witness ==
    /\ probe.kind = "shot"
    /\ answer # NONE
    /\ probe.s.players[0].weapon = WEAPON_SHOTGUN
    /\ probe.s.proj_count = 19
    /\ answer.after.proj_count = MAX_PROJECTILES
    /\ answer.after.players[0].ammo = probe.s.players[0].ammo - 1

\* Player i went through the tick that has just run unarmed, holding SHOOT.
UnarmedShootHeld(i) ==
    /\ MainPhaseTick
    /\ HasBit(state.prev_buttons[i], BTN_SHOOT)
    /\ prev.players[i].weapon = WEAPON_NONE
    /\ state.players[i].weapon = WEAPON_NONE

\* C28: a player that stays unarmed and holds SHOOT creates no projectile in
\* that tick, whatever the number of ticks it has held it for: none of the
\* projectiles in flight that are new in the tick is its own, and when the
\* other player has not fired next_proj_id is unchanged (and proj_count
\* stays 0 if it was 0).
C28_UnarmedSpawnsNothing ==
    \A i \in 0..1 :
        UnarmedShootHeld(i) =>
            /\ \A j \in 0..(state.proj_count - 1) :
                  state.projectiles[j].id >= prev.next_proj_id
                      => state.projectiles[j].owner_id # state.players[i].id
            /\ ~Fired(i)
            /\ ~Fired(1 - i) =>
                  /\ state.next_proj_id = prev.next_proj_id
                  /\ prev.proj_count = 0 => state.proj_count = 0

\* C28 witness: player 0, unarmed and free to fire, has held SHOOT for two
\* ticks running and no projectile has been created.
C28_Witness ==
    /\ UnarmedShootHeld(0)
    /\ HasBit(prev.prev_buttons[0], BTN_SHOOT)
    /\ IsAlive(state.players[0])
    /\ prev.players[0].shoot_cooldown = 0
    /\ state.next_proj_id = prev.next_proj_id
    /\ state.proj_count = 0

\* The inputs the next step_mut call on s may be given.
InputsAt(s) ==
    IF s.match_over THEN TauntInputs
    ELSE ScriptInputs(Script(scenario), s.tick)

SameBytes(a, b) == encode_state(a) = encode_state(b)

\* A chunk replay (a, from a decoded boundary state) run beside the
\* uninterrupted run (b), for up to n ticks or until the match is over, as the
\* chunk guest replays: the two encode to the same bytes after every tick.
RECURSIVE ReplayAgrees(_, _, _)
RECURSIVE ReplayedTickAgrees(_, _, _)
ReplayAgrees(a, b, n) ==
    IF n = 0 \/ a.match_over THEN TRUE
    ELSE \A inp \in InputsAt(a) :
            ReplayedTickAgrees(step_mut(a, InputPair(inp), arena_map),
                               step_mut(b, InputPair(inp), arena_map), n)

ReplayedTickAgrees(a, b, n) == SameBytes(a, b) /\ ReplayAgrees(a, b, n - 1)

\* The state is a chunk boundary of a match still running.
AtChunkBoundary == state.tick % CHUNK_SIZE = 0 /\ ~state.match_over

\* What C29 asks of the state and its decoded encoding c. (Where c is the
\* state itself there is nothing to compare.)
StepReadsEncodingOnly(c) ==
    (c # state) =>
        /\ \A inp \in InputsAt(state) :
              SameBytes(step_mut(c, InputPair(inp), arena_map),
                        step_mut(state, InputPair(inp), arena_map))
        /\ AtChunkBoundary => ReplayAgrees(c, state, CHUNK_SIZE)

\* C29: stepping decode_state(encode_state(s)) and stepping s give states
\* with the same encode_state bytes, for every reachable state s and every
\* input pair, and a chunk replayed from the decoded state of a chunk
\* boundary encodes like the uninterrupted run after each of its ticks.
C29_StepDependsOnEncodingOnly == StepReadsEncodingOnly(decode_state(encode_state(state)))

\* C29 witness: a chunk boundary whose state keeps removed projectiles in its
\* unused slots, so that its decoded encoding is another state, with player 0
\* armed for the shots of the chunk; the replay of the chunk agrees.
C29_Witness ==
    /\ AtChunkBoundary
    /\ state.tick > 0
    /\ state.projectiles[state.proj_count] # EMPTY_PROJECTILE
    /\ state.players[0].weapon # WEAPON_NONE
    /\ ReplayAgrees(decode_state(encode_state(state)), state, CHUNK_SIZE)

\* Health, lives, score and winner of b are those of a.
SameVitals(a, b) ==
    /\ \A i \in 0..1 : /\ b.players[i].health = a.players[i].health
                       /\ b.players[i].lives = a.players[i].lives
    /\ b.score = a.score
    /\ b.winner = a.winner

\* The linger that began in state begun, stepped from s on with one input pair
\* held: the k-th tick of the linger and all after it leave the vitals alone,
\* and match_over is true from the DEATH_LINGER_TICKS-th tick, not before.
RECURSIVE LingerRuns(_, _, _, _)
RECURSIVE LingerTickRuns(_, _, _, _)
LingerRuns(begun, s, inputs, k) ==
    IF k > DEATH_LINGER_TICKS THEN TRUE
    ELSE LingerTickRuns(begun, step_mut(s, inputs, arena_map), inputs, k)

LingerTickRuns(begun, s, inputs, k) ==
    /\ s.tick = begun.tick + k
    /\ s.match_over = (k = DEATH_LINGER_TICKS)
    /\ SameVitals(begun, s)
    /\ LingerRuns(begun, s, inputs, k + 1)

\* C30: a main-phase tick that starts the death linger sets the timer to
\* DEATH_LINGER_TICKS and names the winner; match_over is false for the next
\* 29 ticks and true at the 30th, whatever the inputs, and no health, lives
\* or score changes in those ticks.
C30_LingerLastsThirtyTicks ==
    /\ (MainPhaseTick /\ state.death_linger_timer > 0) =>
           /\ state.death_linger_timer = DEATH_LINGER_TICKS
           /\ DEATH_LINGER_TICKS = 30
           /\ ~state.match_over
           /\ state.winner \in 0..1
           /\ \A inp \in TauntInputs : LingerRuns(state, state, InputPair(inp), 1)
    /\ (~prev.match_over /\ prev.death_linger_timer > 0 /\ state.tick = prev.tick + 1) =>
           /\ state.death_linger_timer = prev.death_linger_timer - 1
           /\ state.match_over = (state.death_linger_timer = 0)
           /\ SameVitals(prev, state)

\* C30 witness: the last tick of a linger has run, player 0 alive and
\* holding SHOOT in it: the match is over and the vitals are as they were.
C30_Witness ==
    /\ ~prev.match_over
    /\ prev.death_linger_timer = 1
    /\ state.tick = prev.tick + 1
    /\ IsAlive(state.players[0])
    /\ HasBit(state.prev_buttons[0], BTN_SHOOT)
    /\ state.match_over
    /\ SameVitals(prev, state)

\* C31: winner is -1 exactly while the match is neither over nor in its
\* death linger, and a winner of 0 or 1 is the winner after every later tick
\* (so a chunk boundary after the decision reports the final winner).
C31_WinnerSetOnceDecided ==
    /\ (state.winner # -1) <=> (state.death_linger_timer > 0 \/ state.match_over)
    /\ state.winner \in {-1, 0, 1}
    /\ (prev.winner \in 0..1 /\ state.tick = prev.tick + 1) => state.winner = prev.winner

\* C31 witness: the linger that named player 1 has ended and the finished
\* match has been stepped since; player 1 is still the winner.
C31_Witness ==
    /\ state.match_over
    /\ state.pickup_count = 0
    /\ taunts >= 1
    /\ prev.winner = 1
    /\ state.winner = 1

\* What the settle_match call recorded in rec violated, read from its
\* arguments, its trace and the match records m it ran against.
BadSize(rec) == Len(rec.journal) # JOURNAL_SIZE
NoMatch(rec, m) == rec.session_id \notin DOMAIN m
Settled(rec, m) == rec.session_id \in DOMAIN m /\ m[rec.session_id].settled
VerifierRejected(rec) ==
    \E k \in 1..Len(rec.trace) : IsCall(rec.trace, k, "verify") /\ ~rec.trace[k].ok
BadSeed(rec, m) == extract_seed_commit(rec.journal) # m[rec.session_id].seed_commit
BadWinner(rec) == decode_winner(rec.journal) \notin {0, 1}

\* No match record is written and the hub is not called before the verifier.
NothingBeforeVerify(rec) ==
    \A k \in 1..Len(rec.trace) :
        (IsCall(rec.trace, k, "end_game") \/ IsCall(rec.trace, k, "set_match")) =>
            \E j \in 1..(k - 1) : IsCall(rec.trace, j, "verify")

\* C32 as stated: the checks run in the order journal size, match found,
\* match not settled, verifier, seed commitment, winner; the error returned
\* is that of the first check violated in this order.
C32_DocumentedCheckOrder ==
    [][SettleStep =>
          /\ NothingBeforeVerify(last')
          /\ IF BadSize(last') THEN last'.result = "InvalidJournal"
             ELSE IF NoMatch(last', matches) THEN last'.result = "MatchNotFound"
             ELSE IF Settled(last', matches) THEN last'.result = "MatchAlreadySettled"
             ELSE IF VerifierRejected(last') THEN last'.result = "panic"
             ELSE IF BadSeed(last', matches) THEN last'.result = "SeedMismatch"
             ELSE IF BadWinner(last') THEN last'.result = "InvalidWinner"
             ELSE last'.result \in {"ok", "panic"}]_vars

\* C32 amended: the checks run in the order match found, match not settled,
\* journal size, verifier, winner, seed commitment; the error returned is
\* that of the first check violated in this order, and no match record is
\* written and the hub is not called before the verifier call.
C32_CodeCheckOrder ==
    [][SettleStep =>
          /\ NothingBeforeVerify(last')
          /\ IF NoMatch(last', matches) THEN last'.result = "MatchNotFound"
             ELSE IF Settled(last', matches) THEN last'.result = "MatchAlreadySettled"
             ELSE IF BadSize(last') THEN last'.result = "InvalidJournal"
             ELSE IF VerifierRejected(last') THEN last'.result = "panic"
             ELSE IF BadWinner(last') THEN last'.result = "InvalidWinner"
             ELSE IF BadSeed(last', matches) THEN last'.result = "SeedMismatch"
             ELSE last'.result \in {"ok", "panic"}]_vars

\* C32 witness: a settle_match whose journal carries both a winner outside
\* {0, 1} and another seed commitment than the match's has passed the
\* verifier and returned InvalidWinner.
C32_Witness ==
    /\ last.op = "settle_match"
    /\ ~NoMatch(last, matches)
    /\ ~BadSize(last)
    /\ BadWinner(last)
    /\ BadSeed(last, matches)
    /\ \E k \in 1..Len(last.trace) : IsCall(last.trace, k, "verify") /\ last.trace[k].ok
    /\ last.result = "InvalidWinner"

\* The four penetration depths of player p in platform plat, in the order
\* left, right, top, bottom.
Overlaps(p, plat) ==
    << (p.x + PLAYER_WIDTH) - plat.x, (plat.x + plat.width) - p.x,
       (p.y + PLAYER_HEIGHT) - plat.y, (plat.y + plat.height) - p.y >>

Smallest(o) == Min(Min(Min(o[1], o[2]), o[3]), o[4])

\* Player p pushed out of platform plat through side k (1 left, 2 right,
\* 3 top, 4 bottom).
PushedOut(p, plat, k) ==
    CASE k = 1 -> [p EXCEPT !.x = plat.x - PLAYER_WIDTH, !.vx = 0]
      [] k = 2 -> [p EXCEPT !.x = plat.x + plat.width, !.vx = 0]
      [] k = 3 -> [p EXCEPT !.y = plat.y - PLAYER_HEIGHT, !.vy = 0, !.grounded = TRUE]
      [] OTHER -> [p EXCEPT !.y = plat.y + plat.height, !.vy = 0]

\* The first side in the given order whose depth is the smallest.
RECURSIVE FirstSmallest(_, _, _)
FirstSmallest(o, order, k) ==
    IF k >= Len(order) \/ o[order[k]] = Smallest(o) THEN order[k]
    ELSE FirstSmallest(o, order, k + 1)

\* A collision was resolved from a position where two depths tie for the
\* smallest.
TieResolved ==
    /\ probe.kind = "collide"
    /\ answer # NONE
    /\ Cardinality({k \in 1..4 : Overlaps(probe.p, probe.plat)[k]
                                    = Smallest(Overlaps(probe.p, probe.plat))}) > 1

\* C33 as stated: when several penetration depths equal the minimum, the
\* player is pushed out by the priority order left, right, top, bottom.
C33_TieOrderLeftRightTopBottom ==
    TieResolved =>
        answer.after = PushedOut(probe.p, probe.plat,
                                 FirstSmallest(Overlaps(probe.p, probe.plat),
                                               << 1, 2, 3, 4 >>, 1))

\* C33 amended: when several penetration depths equal the minimum, the
\* player is pushed out by the priority order top, bottom, left, right.
C33_TieOrderTopBottomLeftRight ==
    TieResolved =>
        answer.after = PushedOut(probe.p, probe.plat,
                                 FirstSmallest(Overlaps(probe.p, probe.plat),
                                               << 3, 4, 1, 2 >>, 1))

\* C33 witness: a player as deep into the left side as into the top of a
\* platform has been put on top of it, where it was sideways.
C33_Witness ==
    /\ TieResolved
    /\ Overlaps(probe.p, probe.plat)[1] = Overlaps(probe.p, probe.plat)[3]
    /\ answer.after.grounded
    /\ answer.after.y = probe.plat.y - PLAYER_HEIGHT
    /\ answer.after.x = probe.p.x

\* C34: a player that is wall sliding after movement, wall_dir being the side
\* of the wall, faces away from the wall (facing = -wall_dir, the direction
\* the shooting step aims in) and has vx = 0.
C34_WallSlideFacesOutward ==
    \A i \in 0..1 :
        (IsAlive(state.players[i]) /\ state.players[i].wall_sliding) =>
            /\ state.players[i].facing = -state.players[i].wall_dir
            /\ state.players[i].vx = 0

\* The damage of one zone burst, elapsed ticks after sudden death began.
BurstDamage(elapsed) ==
    Max(TruncDiv(Min(elapsed, SUDDEN_DEATH_DURATION) * ZONE_DMG_INTERVAL,
                 SUDDEN_DEATH_DURATION * 3), 1)

\* The tick that has just run was a burst tick of the damage zone, and player
\* i, alive when it began, ended its movement with its centre outside the
\* zone walls. Nothing but the zone touched its health: no projectile was in
\* flight and no stomp was going on.
ZoneBurstOn(i) ==
    /\ MainPhaseTick
    /\ state.tick > state.cfg_sudden_death
    /\ (state.tick - state.cfg_sudden_death) % ZONE_DMG_INTERVAL = 0
    /\ IsAlive(prev.players[i])
    /\ prev.proj_count = 0 /\ state.proj_count = 0
    /\ \A j \in 0..1 : prev.players[j].stomped_by = -1
                       /\ state.players[j].stomped_by = -1
    /\ \/ state.players[i].x + PLAYER_WIDTH \div 2 < state.arena_left
       \/ state.players[i].x + PLAYER_WIDTH \div 2 > state.arena_right

\* The health player i has after a burst of dmg.
AfterBurst(i, dmg) ==
    IF prev.players[i].health - dmg <= 0 THEN 0
    ELSE prev.players[i].health - dmg

\* C35: the damage of a zone burst, applied every ZONE_DMG_INTERVAL ticks to
\* an alive player outside the zone walls, is at least 1, never decreases as
\* the ticks since the start of sudden death go by, and is 5 once the zone
\* is fully closed (SUDDEN_DEATH_DURATION ticks or more have gone by).
C35_BurstDamageReachesFive ==
    \A i \in 0..1 :
        ZoneBurstOn(i) =>
            LET elapsed == state.tick - state.cfg_sudden_death
            IN  /\ state.players[i].health = AfterBurst(i, BurstDamage(elapsed))
                /\ BurstDamage(elapsed) >= 1
                /\ elapsed > ZONE_DMG_INTERVAL =>
                       BurstDamage(elapsed) >= BurstDamage(elapsed - ZONE_DMG_INTERVAL)
                /\ elapsed >= SUDDEN_DEATH_DURATION => BurstDamage(elapsed) = 5

\* The part of C35 the code keeps: every burst takes exactly 1 health.
C35_BurstDamageIsOne ==
    \A i \in 0..1 :
        ZoneBurstOn(i) => state.players[i].health = AfterBurst(i, 1)

\* The state the hit step (step 9) of a tick on s with these inputs is given:
\* s after cooldowns, movement, stomps, pickups, shooting and projectile
\* movement.
BeforeHits(s, inputs) ==
    LET Moved(c) ==
            [c EXCEPT !.players =
                [i \in 0..1 |-> MovePlayer(c.players[i], inputs[i],
                                           s.prev_buttons[i], arena_map)]]
        Stomped(c) ==
            ProcessStompsFrom(StompDetectFrom(c, 0), 0, inputs, s.prev_buttons,
                              s.tick + 1)
        Fought(c) ==
            MoveProjectiles(Shoot(Shoot(resolve_weapon_pickups(c), 0, inputs[0]),
                                  1, inputs[1]), arena_map).state
    IN  Fought(Stomped(Moved(
            [s EXCEPT !.tick = s.tick + 1,
                      !.players = [i \in 0..1 |-> TickCooldowns(s.players[i])]])))

\* The slots of h whose projectile, fired by the other player, lies on
\* player v.
HitSlots(h, v) ==
    {k \in 0..(h.proj_count - 1) :
        /\ h.projectiles[k].owner_id # h.players[v].id
        /\ aabb_hit(h.projectiles[k].x, h.projectiles[k].y,
                    h.players[v].x, h.players[v].y, PLAYER_WIDTH, PLAYER_HEIGHT)}

\* In h exactly one projectile lies on player v, who can be hit: a rocket of
\* the other player, and no projectile lies on that other player.
RocketHit(h, v) ==
    /\ IsAlive(h.players[v]) /\ ~IsInvincible(h.players[v])
    /\ Cardinality(HitSlots(h, v)) = 1
    /\ \A k \in HitSlots(h, v) : h.projectiles[k].weapon = WEAPON_ROCKET
    /\ HitSlots(h, 1 - v) = {}

\* How often player id is the victim in a kill list.
TimesKilled(kills, id) == Cardinality({k \in 1..Len(kills) : kills[k][2] = id})

\* The hit step on h, r being its result: the rocket takes its direct damage
\* from v and nothing more, leaves its owner's health alone, is removed, and
\* records v's death once if the hit was fatal and never otherwise.
DirectDamageOnly(h, v, r) ==
    LET damage == fp_weapon_stats(WEAPON_ROCKET).damage
    IN  /\ r.state.players[v].health = Max(h.players[v].health - damage, 0)
        /\ r.state.players[1 - v].health = h.players[1 - v].health
        /\ r.state.proj_count = h.proj_count - 1
        /\ TimesKilled(r.kills, h.players[v].id)
               = IF h.players[v].health - damage <= 0 THEN 1 ELSE 0
        /\ TimesKilled(r.kills, h.players[1 - v].id) = 0

\* The last tick was a normal one, run on these inputs, and h, the state its
\* hit step was given, has a lone rocket on player v. A projectile in h was
\* in flight when the tick began or was fired in it (every shot raises
\* next_proj_id).
RocketHitIn(inp, h, v) ==
    /\ MainPhaseTick
    /\ prev.proj_count > 0 \/ state.next_proj_id # prev.next_proj_id
    /\ RocketHit(h, v)
    /\ state = step_mut(prev, InputPair(inp), arena_map)

\* What C36 says of the hit step on h.
HitAsClaimed(inp, h, v) ==
    RocketHitIn(inp, h, v) =>
        /\ DirectDamageOnly(h, v, resolve_hits_mut(h))
        /\ state.score[1 - v] <= prev.score[1 - v] + 1
        /\ state.score[v] = prev.score[v]

\* C36: a rocket that directly hits a player takes exactly the rocket's direct
\* damage from that player's health: the splash at the impact point is
\* applied neither to the victim nor to the rocket's owner, and a kill by the
\* rocket is recorded at most once (once exactly when the hit is fatal, and
\* the owner then scores one point).
C36_RocketDirectHitNoSplash ==
    \A inp \in SubmittedInputs : \A v \in 0..1 :
        HitAsClaimed(inp, BeforeHits(prev, InputPair(inp)), v)

\* C36 witness: the tick that has just run saw a rocket of player 0 hit
\* player 1 fatally; player 1 is dead with health 0 and player 0 scored once.
C36_Witness ==
    /\ \E inp \in SubmittedInputs :
          RocketHitIn(inp, BeforeHits(prev, InputPair(inp)), 1)
    /\ prev.players[1].health > 0
    /\ state.players[1].health = 0
    /\ ~IsAlive(state.players[1])
    /\ state.score[0] = prev.score[0] + 1

(* ------------------------------------------------------------------ *)
(* The browser wrapper's state transfer                                 *)
(* ------------------------------------------------------------------ *)
\* A JS number v / 256 is held exactly as its floor and its 256ths.
fp_to_f64(v) == [whole |-> v \div ONE, frac |-> v % ONE]

\* (d * 256).round(): the product is a whole number.
f64_to_fp(d) == d.whole * ONE + d.frac

player_to_js(p) ==
    [id |-> p.id,
     x |-> fp_to_f64(p.x), y |-> fp_to_f64(p.y),
     vx |-> fp_to_f64(p.vx), vy |-> fp_to_f64(p.vy),
     facing |-> p.facing, health |-> p.health, lives |-> p.lives,
     shoot_cooldown |-> p.shoot_cooldown, grounded |-> p.grounded,
     state_flags |-> p.state_flags, respawn_timer |-> p.respawn_timer,
     weapon |-> p.weapon, ammo |-> p.ammo, jumps_left |-> p.jumps_left,
     wall_sliding |-> p.wall_sliding, wall_dir |-> p.wall_dir,
     stomped_by |-> p.stomped_by, stomping_on |-> p.stomping_on,
     stomp_shake_progress |-> p.stomp_shake_progress,
     stomp_cooldown |-> p.stomp_cooldown]

player_from_js(p) ==
    [id |-> p.id,
     x |-> f64_to_fp(p.x), y |-> f64_to_fp(p.y),
     vx |-> f64_to_fp(p.vx), vy |-> f64_to_fp(p.vy),
     facing |-> p.facing, health |-> p.health, lives |-> p.lives,
     shoot_cooldown |-> p.shoot_cooldown, grounded |-> p.grounded,
     state_flags |-> p.state_flags, respawn_timer |-> p.respawn_timer,
     weapon |-> p.weapon, ammo |-> p.ammo, jumps_left |-> p.jumps_left,
     wall_sliding |-> p.wall_sliding, wall_dir |-> p.wall_dir,
     stomped_by |-> p.stomped_by, stomping_on |-> p.stomping_on,
     stomp_shake_progress |-> p.stomp_shake_progress,
     stomp_last_shake_dir |-> 0,
     stomp_auto_run_dir |-> 0,
     stomp_auto_run_timer |-> 0,
     stomp_cooldown |-> p.stomp_cooldown]

\* export_state: the live projectiles and pickups as lists.
state_to_js(s) ==
    [tick |-> s.tick,
     players |-> [k \in 1..2 |-> player_to_js(s.players[k - 1])],
     projectiles |->
        [k \in 1..s.proj_count |->
            [id |-> s.projectiles[k - 1].id,
             owner_id |-> s.projectiles[k - 1].owner_id,
             x |-> fp_to_f64(s.projectiles[k - 1].x),
             y |-> fp_to_f64(s.projectiles[k - 1].y),
             vx |-> fp_to_f64(s.projectiles[k - 1].vx),
             vy |-> fp_to_f64(s.projectiles[k - 1].vy),
             lifetime |-> s.projectiles[k - 1].lifetime,
             weapon |-> s.projectiles[k - 1].weapon]],
     weapon_pickups |->
        [k \in 1..s.pickup_count |->
            [id |-> s.weapon_pickups[k - 1].id,
             x |-> fp_to_f64(s.weapon_pickups[k - 1].x),
             y |-> fp_to_f64(s.weapon_pickups[k - 1].y),
             weapon |-> s.weapon_pickups[k - 1].weapon,
             respawn_timer |-> s.weapon_pickups[k - 1].respawn_timer]],
     scores |-> s.score,
     arena_left |-> fp_to_f64(s.arena_left),
     arena_right |-> fp_to_f64(s.arena_right),
     match_over |-> s.match_over,
     winner |-> s.winner,
     death_linger_timer |-> s.death_linger_timer,
     rng_state |-> s.rng_state,
     next_projectile_id |-> s.next_proj_id,
     last_buttons |-> s.prev_buttons,
     cfg_initial_lives |-> s.cfg_initial_lives,
     cfg_match_duration |-> s.cfg_match_duration,
     cfg_sudden_death |-> s.cfg_sudden_death]

\* import_state into the wrapper whose state is inner.
import_state(inner, js) ==
    [tick |-> js.tick,
     players |-> [i \in 0..1 |-> IF i < Len(js.players)
                                 THEN player_from_js(js.players[i + 1])
                                 ELSE inner.players[i]],
     projectiles |->
        [i \in 0..(MAX_PROJECTILES - 1) |->
            IF i < Len(js.projectiles)
            THEN [id |-> js.projectiles[i + 1].id,
                  owner_id |-> js.projectiles[i + 1].owner_id,
                  x |-> f64_to_fp(js.projectiles[i + 1].x),
                  y |-> f64_to_fp(js.projectiles[i + 1].y),
                  vx |-> f64_to_fp(js.projectiles[i + 1].vx),
                  vy |-> f64_to_fp(js.projectiles[i + 1].vy),
                  lifetime |-> js.projectiles[i + 1].lifetime,
                  weapon |-> js.projectiles[i + 1].weapon]
            ELSE EMPTY_PROJECTILE],
     proj_count |-> Min(Len(js.projectiles), MAX_PROJECTILES),
     weapon_pickups |->
        [i \in 0..(MAX_WEAPON_PICKUPS - 1) |->
            IF i < Len(js.weapon_pickups)
            THEN [id |-> js.weapon_pickups[i + 1].id,
                  x |-> f64_to_fp(js.weapon_pickups[i + 1].x),
                  y |-> f64_to_fp(js.weapon_pickups[i + 1].y),
                  weapon |-> js.weapon_pickups[i + 1].weapon,
                  respawn_timer |-> js.weapon_pickups[i + 1].respawn_timer]
            ELSE EMPTY_PICKUP],
     pickup_count |-> Min(Len(js.weapon_pickups), MAX_WEAPON_PICKUPS),
     rng_state |-> js.rng_state,
     score |-> js.scores,
     next_proj_id |-> js.next_projectile_id,
     arena_left |-> f64_to_fp(js.arena_left),
     arena_right |-> f64_to_fp(js.arena_right),
     match_over |-> js.match_over,
     winner |-> js.winner,
     death_linger_timer |-> js.death_linger_timer,
     prev_buttons |-> js.last_buttons,
     cfg_initial_lives |-> js.cfg_initial_lives,
     cfg_match_duration |-> js.cfg_match_duration,
     cfg_sudden_death |-> js.cfg_sudden_death]

\* The state a fresh wrapper holds after importing what a wrapper holding s
\* exports.
Transferred(s) ==
    import_state(create_initial_state(SeedWord(0), arena_map), state_to_js(s))

\* C37: the wrapper's state transfer is lossless: export_state followed by
\* import_state gives a state with the canonical encoding of the exported
\* one, the stomp fields stomp_last_shake_dir, stomp_auto_run_dir and
\* stomp_auto_run_timer included.
C37_TransferLossless == SameBytes(Transferred(state), state)

\* What the transfer does keep: every field but the three stomp fields
\* player_from_js sets to 0 (the unused projectile and pickup slots, which
\* the encoding leaves out, are emptied).
C37_TransferKeepsAllButStompFields ==
    Transferred(state) =
        [state EXCEPT
           !.players = [i \in 0..1 |->
               [state.players[i] EXCEPT !.stomp_last_shake_dir = 0,
                                        !.stomp_auto_run_dir = 0,
                                        !.stomp_auto_run_timer = 0]],
           !.projectiles = [i \in 0..(MAX_PROJECTILES - 1) |->
               IF i < state.proj_count THEN state.projectiles[i]
               ELSE EMPTY_PROJECTILE],
           !.weapon_pickups = [i \in 0..(MAX_WEAPON_PICKUPS - 1) |->
               IF i < state.pickup_count THEN state.weapon_pickups[i]
               ELSE EMPTY_PICKUP]]

\* C38: every match ends within a fixed bound: match_over is true in every
\* state whose tick is cfg_match_duration + DEATH_LINGER_TICKS (1830 with the
\* default configuration) or more.
C38_MatchOverByBound ==
    state.tick >= state.cfg_match_duration + DEATH_LINGER_TICKS => state.match_over

\* C38 witness: the bound is met exactly. A player died in the zone at tick
\* cfg_match_duration, the time-up stood back for the linger, and the linger's
\* last tick, the one that has just run, ended the match at the bound.
C38_Witness ==
    /\ state.tick = state.cfg_match_duration + DEATH_LINGER_TICKS
    /\ state.match_over
    /\ ~prev.match_over
    /\ prev.death_linger_timer = 1

\* Player p holds no weapon and no ammo, or one of the five weapons with at
\* least one round and at most that weapon's full ammo.
WeaponAmmoConsistent(p) ==
    /\ p.weapon = WEAPON_NONE <=> p.ammo = 0
    /\ p.weapon # WEAPON_NONE =>
          /\ p.weapon \in 0..(WEAPON_COUNT - 1)
          /\ p.ammo >= 1
          /\ p.ammo <= fp_weapon_stats(p.weapon).ammo

\* C39: in every reachable state each player has weapon = none exactly when
\* ammo = 0, and an armed player's ammo is between 1 and the full ammo of the
\* weapon held; pickups, shots, deaths and the linger-end clear all keep it.
C39_WeaponIffAmmo ==
    \A i \in 0..1 : WeaponAmmoConsistent(state.players[i])

\* C39 witness: player 0, alive and holding a weapon with one round left,
\* pressed SHOOT in the tick that has just run and is now unarmed with no
\* ammo, its shot in flight.
C39_Witness ==
    /\ MainPhaseTick
    /\ IsAlive(prev.players[0])
    /\ prev.players[0].weapon # WEAPON_NONE
    /\ prev.players[0].ammo = 1
    /\ HasBit(state.prev_buttons[0], BTN_SHOOT)
    /\ state.players[0].weapon = WEAPON_NONE
    /\ state.players[0].ammo = 0
    /\ state.next_proj_id > prev.next_proj_id

\* The chunk guest's fixed buffers, in u32 words.
MAX_STATE_WORDS == 256
MAX_CHUNK_INPUT_WORDS == 540

\* The canonical encoding of s has the stated length, which fits the guest's
\* state buffer.
StateFits(s) ==
    /\ Len(encode_state(s)) = 227 + 29 * s.proj_count + 17 * s.pickup_count
    /\ Len(encode_state(s)) <= 991
    /\ 991 <= MAX_STATE_WORDS * 4

\* The chunk the guest is replaying has at most CHUNK_SIZE ticks, six bytes
\* a tick, and they fit the guest's input buffer.
ChunkInputFits ==
    /\ guest.tick_count <= CHUNK_SIZE
    /\ 6 * guest.tick_count <= MAX_CHUNK_INPUT_WORDS * 4
    /\ tick_idx = 0 =>
          Len(encode_chunk_inputs(scenario, guest.start_tick, guest.tick_count))
              = 6 * guest.tick_count

\* C40: the canonical encoding of every reachable state, the boundary states
\* handed to the chunk guest among them, is 227 + 29 * proj_count
\* + 17 * pickup_count bytes long, at most 991 and so within the guest's state
\* buffer of MAX_STATE_WORDS * 4 = 1024 bytes; and the input bytes of a chunk,
\* of at most 360 ticks, are within MAX_CHUNK_INPUT_WORDS * 4 bytes.
C40_EncodingFitsGuestBuffers ==
    /\ StateFits(state)
    /\ \A k \in 1..Len(boundary_states) : StateFits(boundary_states[k])
    /\ pc = "guest" => ChunkInputFits

\* C40 witness: the chunk guest, given a full chunk of CHUNK_SIZE ticks (its
\* input buffer filled to the last byte), holds a state with projectiles in
\* flight, whose encoding is longer than that of the initial state.
C40_Witness ==
    /\ pc = "guest"
    /\ guest.tick_count = CHUNK_SIZE
    /\ 6 * guest.tick_count = MAX_CHUNK_INPUT_WORDS * 4
    /\ state.proj_count > 0
    /\ Len(encode_state(state)) > 227 + 17 * MAX_WEAPON_PICKUPS

====
